---- MODULE Spec2Model ----
(***************************************************************************)
(* Model of the blob storage device layer of storage/src/device.rs:        *)
(* the I/O request model (BlobIoDesc, BlobIoVec, BlobIoRange) and the      *)
(* BlobDevice facade over an atomically swappable vector of blob caches.   *)
(*                                                                         *)
(* Several specifications share this module, each with its own Init and    *)
(* Next; the variables a specification does not use stay at a fixed value. *)
(*   SpecDesc   BlobIoDesc::is_continuous on bounded descriptors           *)
(*   SpecIoVec  BlobIoVec built by append/reset, then validate             *)
(*   SpecRange  BlobIoRange::new followed by merge calls                   *)
(*   SpecValidate  BlobIoRange::validate on bounded ranges                 *)
(*   SpecInfo   BlobInfo::new followed by calls of its mutators            *)
(*   SpecNew    BlobIoDesc::new and the descriptor pushed on a BlobIoVec   *)
(*   Spec       BlobDevice: concurrent update / read_to calls              *)
(*   SpecConc   BlobDevice: two concurrent update calls                    *)
(*   SpecIo     BlobDevice: all_chunks_ready, prefetch and                 *)
(*              fetch_range_synchronous                                    *)
(*   SpecSnap   BlobDevice: the operations of SpecIo with a concurrent    *)
(*              update                                                     *)
(*   SpecHole   BlobDeviceIoVec::fill_hole on bounded buffers              *)
(*   SpecCache  BlobCache: concurrent reads of one chunk of one blob cache *)
(*   SpecHttp   api/src/http.rs: the HTTP server thread of start_http_thread *)
(*              with kick_api_server and exit_api_server, and the API       *)
(*              server at the other end of the to_api/from_api channels     *)
(***************************************************************************)
EXTENDS Integers, Sequences, FiniteSets, TLC

VARIABLES
    d_self, d_prev, d_res,      \* SpecDesc: the two descriptors and the result
    iovec, iv_res,              \* SpecIoVec: a BlobIoVec and validate()'s result
    range, merged, debug_build, \* SpecRange: a BlobIoRange, the descriptors
                                \* given to new/merge, and the build profile
    valid,                      \* SpecValidate: the result of range.validate()
    info, info_calls,           \* SpecInfo: a BlobInfo, and the features given
                                \* to new with the mutators called since
    blobs,                      \* BlobDevice.blobs: the cache vector in service
    blob_count,                 \* BlobDevice.blob_count
    blob_ids,                   \* blob_ids[i + 1]: blob_id() of the caches of
                                \* blob index i
    chunk,                      \* SpecCache: one chunk of a blob cache: its chunk
                                \* map entry, cached bytes and backend fetches
    rd,                         \* SpecCache: per reader, the read in progress
    ht,                         \* SpecHttp: the HTTP server thread: position, poll
                                \* batch, the kick_api_server call in progress
    to_api, from_api,           \* SpecHttp: messages in flight on the two channels
    api,                        \* SpecHttp: the API server: its channel ends and
                                \* the requests it has received and not answered
    hole,                       \* SpecHole: a fill_hole call: its arguments, locals,
                                \* the output buffers and the writes made
    ncaches,                    \* caches the factory has created so far (1..ncaches)
    running,                    \* caches whose prefetch workers are running
    pc, op, ret                 \* per thread: position, the call's arguments and
                                \* locals, and the result of its last call

desc_vars == <<d_self, d_prev, d_res>>
iovec_vars == <<iovec, iv_res>>
range_vars == <<range, merged, valid>>
info_vars == <<info, info_calls>>
dev_vars == <<blobs, blob_count, blob_ids, ncaches, running, pc, op, ret>>
cache_vars == <<chunk, rd>>
http_vars == <<ht, to_api, from_api, api>>
hole_vars == <<hole>>
vars == <<desc_vars, iovec_vars, range_vars, info_vars, debug_build, cache_vars,
          http_vars, hole_vars, dev_vars>>

(***************************************************************************)
(* Bounds.  u64 and u32 are scaled down to 0..U64Max and 0..U32Max; the    *)
(* arithmetic keeps the width (checked_add fails above U64Max).            *)
(***************************************************************************)
U64Max == 4
U32Max == 2
MaxBlobIndex == 2
MaxVecLen == 3
MaxMerges == 2
MaxBlobs == 2
MaxCaches == 6
MaxIoLen == 2
MaxChunkId == 2
MaxChunkCount == 2
MaxItems == 2
MaxReads == 4
MaxPolls == 2
MaxKicks == 2
MaxReqVec == 2
MaxBufs == 2
MaxBufLen == 5
MaxHoleSize == 6

None == -1

\* a bool result as it is stored in a result variable
Ret(b) == IF b THEN "true" ELSE "false"

U64 == 0..U64Max
U32 == 0..U32Max
BlobIndexes == 0..MaxBlobIndex

\* u64::checked_add
checked_add(a, b) == IF a + b > U64Max THEN None ELSE a + b

\* u64 += in a release build (overflow checks off): wraps
wrapping_add(a, b) == (a + b) % (U64Max + 1)

\* a conversion to u32 that keeps the value
as_u32_same(x) == x

\* x as u32, for x of type u64: the low bits
as_u32(x) == x % (U32Max + 1)

(***************************************************************************)
(* BlobInfo: chunk_count, blob_features, compressor, stargz and the        *)
(* readahead range.  blob_features is the set of the feature bits that are *)
(* set.                                                                    *)
(***************************************************************************)
Features == {"V5_NO_EXT_BLOB_TABLE"}
Algorithms == {"None", "Lz4Block", "GZip", "Zstd"}

NoInfo == [chunk_count |-> 0, blob_features |-> {}, compressor |-> "None",
           stargz |-> FALSE, readahead_offset |-> 0, readahead_size |-> 0]
NoCalls == [features |-> {}, called |-> {}, readahead |-> <<0, 0>>]

compute_features(b) ==
    LET f == IF b.chunk_count = 0
             THEN [b EXCEPT !.blob_features = @ \cup {"V5_NO_EXT_BLOB_TABLE"}]
             ELSE b
    IN  IF f.compressor = "GZip" THEN [f EXCEPT !.stargz = TRUE] ELSE f

BlobInfo_new(chunk_count, blob_features) ==
    compute_features([NoInfo EXCEPT !.chunk_count = chunk_count,
                                    !.blob_features = blob_features])

\* bits & features == features
has_feature(b, features) == (b.blob_features \cap features) = features

set_features(b, features) == [b EXCEPT !.blob_features = @ \cup features]

reset_features(b) == [b EXCEPT !.blob_features = {}]

set_compressor(b, compressor) == compute_features([b EXCEPT !.compressor = compressor])

is_stargz(b) == b.stargz

\* the getters widen the u32 fields to u64
readahead_offset(b) == b.readahead_offset

readahead_size(b) == b.readahead_size

set_readahead(b, offset, size) ==
    [b EXCEPT !.readahead_offset = as_u32(offset), !.readahead_size = as_u32(size)]

(***************************************************************************)
(* BlobIoDesc: the fields of the descriptor and of its chunk that the      *)
(* request model reads: blob.blob_index, chunkinfo.compress_offset(),      *)
(* chunkinfo.compress_size(), chunkinfo.id() and user_io.                  *)
(***************************************************************************)
ChunkDesc(bi, co, cs, id, user_io) ==
    [blob_index |-> bi, compress_offset |-> co, compress_size |-> cs,
     id |-> id, user_io |-> user_io]

\* a user io descriptor of the chunk with id 0
BlobIoDesc(bi, co, cs) == ChunkDesc(bi, co, cs, 0, TRUE)

AllDescs == {BlobIoDesc(bi, co, cs) : bi \in BlobIndexes, co \in U64, cs \in U32}

\* a descriptor of blob bi whose chunk fields play no part
IndexDesc(bi) == BlobIoDesc(bi, 0, 1)

is_continuous_wrapping(self, prev) ==
    LET offset == self.compress_offset
        prev_size == prev.compress_size
        prev_end == wrapping_add(prev.compress_offset, prev_size)
    IN  prev_end = offset /\ self.blob_index = prev.blob_index

is_continuous(self, prev) ==
    LET offset == self.compress_offset
        prev_size == prev.compress_size
        prev_end == checked_add(prev.compress_offset, prev_size)
    IN  IF prev_end # None
        THEN prev_end = offset /\ self.blob_index = prev.blob_index
        ELSE FALSE

(***************************************************************************)
(* BlobIoVec                                                               *)
(***************************************************************************)
BlobIoVec(size, vec) == [bi_size |-> size, bi_vec |-> vec]

BlobIoVec_new == BlobIoVec(0, <<>>)

\* the loop of validate() started one element too late
validate_skip_second(v) ==
    IF Len(v.bi_vec) > 2
    THEN LET blob_index == v.bi_vec[1].blob_index
         IN  \A n \in 3..Len(v.bi_vec) : ~(v.bi_vec[n].blob_index # blob_index)
    ELSE TRUE

validate(v) ==
    IF Len(v.bi_vec) > 1
    THEN LET blob_index == v.bi_vec[1].blob_index
         IN  \A n \in 2..Len(v.bi_vec) : ~(v.bi_vec[n].blob_index # blob_index)
    ELSE TRUE

\* all descriptors of v have the same blob_index
AllSameBlob(v) ==
    \A i, j \in 1..Len(v.bi_vec) : v.bi_vec[i].blob_index = v.bi_vec[j].blob_index

get_target_blob_index(v) ==
    IF v.bi_vec = <<>> THEN None ELSE v.bi_vec[1].blob_index

append(v, desc) == BlobIoVec(v.bi_size + desc.bi_size, v.bi_vec \o desc.bi_vec)

reset(v) == BlobIoVec(0, <<>>)

(***************************************************************************)
(* BlobIoRange.  chunks holds the descriptor of every chunk of the range,  *)
(* tags the kind of its tag, and uncompressed_size is the field of         *)
(* blob_info that validate() reads.  state is "none" before new, "ok"      *)
(* while the object is usable and "panic" once an assertion has failed.    *)
(***************************************************************************)
NoRange == [state |-> "none", blob_index |-> 0, uncompressed_size |-> 0,
            blob_offset |-> 0, blob_size |-> 0, chunks |-> <<>>, tags |-> <<>>]

Panicked(r) == [r EXCEPT !.state = "panic"]

tag_from_desc(bio) == IF bio.user_io THEN "User" ELSE "Internal"

\* the uncompressed_size of the blobs of the descriptors given to new
BlobSize == U64Max

BlobIoRange_new(bio) ==
    LET blob_size == bio.compress_size
        blob_offset == bio.compress_offset
        r == [state |-> "ok", blob_index |-> bio.blob_index,
              uncompressed_size |-> BlobSize,
              blob_offset |-> blob_offset, blob_size |-> blob_size,
              chunks |-> <<bio>>, tags |-> <<tag_from_desc(bio)>>]
    IN  IF checked_add(blob_offset, blob_size) = None THEN Panicked(NoRange) ELSE r

\* merge that leaves blob_size as it was
merge_keep_size(r, bio, debug) ==
    LET pushed == [r EXCEPT !.tags = Append(@, tag_from_desc(bio)),
                            !.chunks = Append(@, bio)]
    IN  IF debug /\ checked_add(r.blob_offset, r.blob_size) # bio.compress_offset
        THEN Panicked(pushed)
        ELSE pushed

\* merge that puts the new chunk in front of the others
merge_prepend(r, bio, debug) ==
    LET pushed == [r EXCEPT !.tags = <<tag_from_desc(bio)>> \o @,
                            !.chunks = <<bio>> \o @]
        sum == r.blob_size + bio.compress_size
        grown == [pushed EXCEPT !.blob_size = wrapping_add(r.blob_size, bio.compress_size)]
    IN  IF debug /\ checked_add(r.blob_offset, r.blob_size) # bio.compress_offset
        THEN Panicked(pushed)
        ELSE IF debug /\ sum > U64Max
        THEN Panicked(pushed)
        ELSE IF debug /\ checked_add(grown.blob_offset, grown.blob_size) = None
        THEN Panicked(grown)
        ELSE grown

\* debug is the build profile: debug_assert! and the overflow check of += are
\* compiled in only when it is TRUE.
merge(r, bio, debug) ==
    LET pushed == [r EXCEPT !.tags = Append(@, tag_from_desc(bio)),
                            !.chunks = Append(@, bio)]
        sum == r.blob_size + bio.compress_size
        grown == [pushed EXCEPT !.blob_size = wrapping_add(r.blob_size, bio.compress_size)]
    IN  IF debug /\ checked_add(r.blob_offset, r.blob_size) # bio.compress_offset
        THEN Panicked(pushed)
        ELSE IF debug /\ sum > U64Max
        THEN Panicked(pushed)
        ELSE IF debug /\ checked_add(grown.blob_offset, grown.blob_size) = None
        THEN Panicked(grown)
        ELSE grown

\* validate() that lets a range start at the very end of the blob
validate_offset_at_end(r) ==
    LET blob_end == r.uncompressed_size
        end == checked_add(r.blob_offset, r.blob_size)
    IN  IF r.blob_offset > blob_end \/ r.blob_size > blob_end THEN FALSE
        ELSE IF end = None THEN FALSE
        ELSE IF end > blob_end THEN FALSE
        ELSE IF Len(r.chunks) # Len(r.tags) THEN FALSE
        ELSE IF Len(r.chunks) > 1
        THEN ~\E idx \in 2..Len(r.chunks) : r.chunks[idx - 1].id # r.chunks[idx].id
        ELSE TRUE

\* BlobIoRange::validate; idx runs over 1..chunks.len() of the zero-based
\* vector, that is over 2..Len(chunks) here
BlobIoRange_validate(r) ==
    LET blob_end == r.uncompressed_size
        end == checked_add(r.blob_offset, r.blob_size)
    IN  IF r.blob_offset >= blob_end \/ r.blob_size > blob_end THEN FALSE
        ELSE IF end = None THEN FALSE
        ELSE IF end > blob_end THEN FALSE
        ELSE IF Len(r.chunks) # Len(r.tags) THEN FALSE
        ELSE IF Len(r.chunks) > 1
        THEN ~\E idx \in 2..Len(r.chunks) : r.chunks[idx - 1].id # r.chunks[idx].id
        ELSE TRUE

(***************************************************************************)
(* BlobDevice.  Caches are numbered in the order the factory creates them  *)
(* (BLOB_FACTORY.new_blob_cache); blobs[i + 1] is the cache of blob index  *)
(* i.  Two threads call update, a third one the other operations.          *)
(***************************************************************************)
Updaters == {"u1", "u2"}
BlobIds == {"a", "b"}

\* BlobPrefetchRequest
BlobPrefetchRequest(blob_id, offset, len) ==
    [blob_id |-> blob_id, offset |-> offset, len |-> len]
NoReq == BlobPrefetchRequest("a", 0, 0)
Requests == {BlobPrefetchRequest(id, offset, len) :
                id \in BlobIds, offset \in {0, U64Max}, len \in {0, 1, U64Max}}

\* a call of BlobCache::prefetch(reqs, descs) or of
\* BlobObject::fetch_range_uncompressed(offset, len) on a cache
NoCall == [kind |-> "none", cache |-> 0, reqs |-> <<>>, descs |-> <<>>,
           offset |-> 0, len |-> 0]
PrefetchCall(c, reqs, descs) ==
    [NoCall EXCEPT !.kind = "prefetch", !.cache = c, !.reqs = reqs, !.descs = descs]
FetchCall(c, offset, len) ==
    [NoCall EXCEPT !.kind = "fetch_range_uncompressed", !.cache = c,
                   !.offset = offset, !.len = len]

\* what ChunkMap::is_ready returns: Ok(true), Ok(false) or Err
Statuses == {"ready", "absent", "error"}
Readers == {"r1"}
Threads == Updaters \cup Readers

\* name and the arguments n (blob_infos.len()), fs_prefetch and desc; the
\* locals new (the vector update builds), snap (the vector a load() returned)
\* and i (the position of a loop in snap); and, for the properties, before
\* and old (the vector in service when update was called and when it stored),
\* old_running (the caches of old that were running prefetch at the store)
\* and log (the calls the operation has made so far)
\* and, for all_chunks_ready, prefetch and fetch_range_synchronous: n_reqs
\* (prefetches.len()), the element of io_vecs (desc) or of prefetches (req)
\* that the loop is at, what the chunk map reports for the chunks of desc
\* (answers), the call made for that element (call), and whether every
\* descriptor seen so far was reported ready (expect)
NoOp == [name |-> "none", n |-> 0, fs_prefetch |-> FALSE, desc |-> BlobIoVec_new,
         new |-> <<>>, snap |-> <<>>, i |-> 0, before |-> <<>>, old |-> <<>>,
         old_running |-> {}, log |-> <<>>,
         n_reqs |-> 0, req |-> NoReq, answers |-> <<>>, call |-> NoCall,
         expect |-> TRUE]

NoRet == [kind |-> "none", val |-> 0]
Bool(b) == [kind |-> Ret(b), val |-> 0]
Ok(v) == [kind |-> "Ok", val |-> v]
Err(kind) == [kind |-> kind, val |-> 0]

\* one call made by an operation, as recorded in the log of the operation
Event(kind, c) == [kind |-> kind, cache |-> c]

SeqsUpTo(S, n) == UNION {[1..k -> S] : k \in 0..n}

\* the BlobIoVecs handed to the device: every descriptor has size 1, and an
\* empty vector may carry a nonzero bi_size
DevIoVecs ==
    {BlobIoVec(Len(vec), vec) : vec \in SeqsUpTo({IndexDesc(bi) : bi \in 0..MaxBlobs}, MaxIoLen)}
        \cup {BlobIoVec(1, <<>>)}

\* the vectors given to all_chunks_ready and prefetch: those of DevIoVecs
\* that target one blob, as get_target_blob_index() requires
TargetIoVecs == {v \in DevIoVecs : validate(v)}

DevIdle ==
    /\ blobs = <<>> /\ blob_count = 0 /\ blob_ids = <<>> /\ ncaches = 0 /\ running = {}
    /\ pc = [t \in Threads |-> "idle"]
    /\ op = [t \in Threads |-> NoOp]
    /\ ret = [t \in Threads |-> NoRet]

(***************************************************************************)
(* SpecDesc: is_continuous applied to every pair of bounded descriptors.   *)
(***************************************************************************)
DescIdle == d_self = IndexDesc(0) /\ d_prev = IndexDesc(0) /\ d_res = "none"
IoVecIdle == iovec = BlobIoVec_new /\ iv_res = "none"
RangeIdle == range = NoRange /\ merged = <<>> /\ valid = "none"
InfoIdle == info = NoInfo /\ info_calls = NoCalls

\* BlobCache: the readers of one chunk, a reader with no read in progress, and
\* the chunk before any read: absent in the chunk map, nothing cached
CacheReaders == {"r1", "r2", "r3"}
Bytes == {"data", "damaged"}
NoRead ==
    [pc |-> "idle", buf |-> "none", res |-> "none", bytes |-> "none",
     waited |-> FALSE, retry |-> FALSE, issued |-> FALSE]
NoChunk ==
    [ready |-> FALSE, fetching |-> "none", inflight |-> 0, stored |-> "none",
     validate_data |-> FALSE, last |-> "none", reads |-> 0]
CacheIdle == chunk = NoChunk /\ rd = [r \in CacheReaders |-> NoRead]

\* http.rs: the messages of the two channels, a kick_api_server call that has
\* not started, the HTTP thread before its first poll, and the API server
\* with both channel ends open
Some(id) == [kind |-> "Some", id |-> id]
NoneMsg == [kind |-> "None", id |-> 0]
ApiResponse(id, payload) == [from |-> id, payload |-> payload]
NoMsg == ApiResponse(0, "none")
NoKick ==
    [id |-> 0, sent |-> 0, woke |-> FALSE, rx |-> TRUE, tx |-> TRUE,
     res |-> "none", got |-> NoMsg, reply |-> NoMsg]
NoThread ==
    [pc |-> "poll", batch |-> <<>>, reqs |-> 0, do_exit |-> FALSE,
     notifier |-> FALSE, woken |-> FALSE, exit_req |-> FALSE, poll_err |-> FALSE,
     result |-> "none", polls |-> 0, kicks |-> 0, call |-> NoKick, sent |-> <<>>]
NoServer == [rx |-> TRUE, tx |-> TRUE, pending |-> <<>>, nones |-> 0, wakes |-> 0]
HttpIdle == ht = NoThread /\ to_api = <<>> /\ from_api = <<>> /\ api = NoServer

\* fill_hole: the call fill_hole(bufs, size) before its loop: nothing written
HoleCall(bufs, size) ==
    [bufs |-> bufs, size |-> size, count |-> 0, remain |-> size, b |-> 0,
     total |-> 0, offset |-> 0, writes |-> <<>>, pc |-> "for", res |-> NoRet]
HoleIdle == hole = HoleCall(<<>>, 0)

InitDesc ==
    /\ d_self \in AllDescs
    /\ d_prev \in AllDescs
    /\ d_res = "none"
    /\ IoVecIdle /\ RangeIdle /\ InfoIdle /\ CacheIdle /\ HttpIdle /\ HoleIdle /\ DevIdle /\ debug_build = FALSE

DescIsContinuous ==
    /\ d_res = "none"
    /\ d_res' = Ret(is_continuous(d_self, d_prev))
    /\ UNCHANGED <<d_self, d_prev, iovec_vars, range_vars, debug_build,
                 info_vars, cache_vars, http_vars, hole_vars, dev_vars>>

NextDesc == DescIsContinuous

SpecDesc == InitDesc /\ [][NextDesc]_vars

(***************************************************************************)
(* SpecIoVec: a BlobIoVec filled through its public fields, append and     *)
(* reset, and checked with validate.                                       *)
(***************************************************************************)
InitIoVec ==
    /\ iovec = BlobIoVec_new
    /\ iv_res = "none"
    /\ debug_build \in BOOLEAN
    /\ DescIdle /\ RangeIdle /\ InfoIdle /\ CacheIdle /\ HttpIdle /\ HoleIdle /\ DevIdle

\* the caller pushes a descriptor: bi_vec.push(desc); bi_size += size
IoVecPush ==
    /\ iv_res # "panic"
    /\ Len(iovec.bi_vec) < MaxVecLen
    /\ \E bi \in BlobIndexes :
         iovec' = BlobIoVec(iovec.bi_size + 1, Append(iovec.bi_vec, IndexDesc(bi)))
    /\ iv_res' = "none"
    /\ UNCHANGED <<desc_vars, range_vars, debug_build,
                 info_vars, cache_vars, http_vars, hole_vars, dev_vars>>

\* append(desc), with its debug_assert!(self.validate())
IoVecAppend ==
    /\ iv_res # "panic"
    /\ \E n \in 1..2, bi \in BlobIndexes :
         /\ Len(iovec.bi_vec) + n <= MaxVecLen
         /\ LET desc == BlobIoVec(n, [i \in 1..n |-> IndexDesc(bi)])
            IN  /\ iovec' = append(iovec, desc)
                /\ iv_res' = IF debug_build /\ ~validate(append(iovec, desc))
                             THEN "panic" ELSE "none"
    /\ UNCHANGED <<desc_vars, range_vars, debug_build,
                 info_vars, cache_vars, http_vars, hole_vars, dev_vars>>

IoVecReset ==
    /\ iv_res # "panic"
    /\ iovec # BlobIoVec_new
    /\ iovec' = reset(iovec)
    /\ iv_res' = "none"
    /\ UNCHANGED <<desc_vars, range_vars, debug_build,
                 info_vars, cache_vars, http_vars, hole_vars, dev_vars>>

IoVecValidate ==
    /\ iv_res = "none"
    /\ iv_res' = Ret(validate(iovec))
    /\ UNCHANGED <<desc_vars, iovec, range_vars, debug_build,
                 info_vars, cache_vars, http_vars, hole_vars, dev_vars>>

NextIoVec == IoVecPush \/ IoVecAppend \/ IoVecReset \/ IoVecValidate

SpecIoVec == InitIoVec /\ [][NextIoVec]_vars

(***************************************************************************)
(* SpecRange: BlobIoRange::new followed by at most MaxMerges merge calls.  *)
(* merged records the descriptors handed to new and merge, in call order.  *)
(***************************************************************************)
RangeDescs == {BlobIoDesc(bi, co, cs) : bi \in {0, 1}, co \in U64, cs \in U32}

InitRange ==
    /\ range = NoRange
    /\ merged = <<>>
    /\ valid = "none"
    /\ debug_build \in BOOLEAN
    /\ DescIdle /\ IoVecIdle /\ InfoIdle /\ CacheIdle /\ HttpIdle /\ HoleIdle /\ DevIdle

RangeNew ==
    /\ range.state = "none"
    /\ \E bio \in RangeDescs :
         /\ range' = BlobIoRange_new(bio)
         /\ merged' = <<bio>>
    /\ UNCHANGED <<valid, desc_vars, iovec_vars, debug_build,
                 info_vars, cache_vars, http_vars, hole_vars, dev_vars>>

RangeMerge ==
    /\ range.state = "ok"
    /\ Len(merged) <= MaxMerges
    /\ \E bio \in RangeDescs :
         /\ range' = merge(range, bio, debug_build)
         /\ merged' = Append(merged, bio)
    /\ UNCHANGED <<valid, desc_vars, iovec_vars, debug_build,
                 info_vars, cache_vars, http_vars, hole_vars, dev_vars>>

NextRange == RangeNew \/ RangeMerge

SpecRange == InitRange /\ [][NextRange]_vars

(***************************************************************************)
(* SpecValidate: validate() applied to BlobIoRange values.  All fields of  *)
(* the structure are public, so a range is any combination of a blob size, *)
(* an offset, a size, a vector of chunks and a vector of tags.             *)
(***************************************************************************)
\* a chunk with the given id, and a user io tag
IdChunk(id) == ChunkDesc(0, 0, 0, id, TRUE)

\* the range of a blob of size us with the given offset and size, chunks
\* with the given ids and nt tags
ValidateRange(us, bo, bs, ids, nt) ==
    [state |-> "ok", blob_index |-> 0, uncompressed_size |-> us,
     blob_offset |-> bo, blob_size |-> bs,
     chunks |-> [i \in DOMAIN ids |-> IdChunk(ids[i])],
     tags |-> [i \in 1..nt |-> "User"]]

InitValidate ==
    /\ \E us \in U64, bo \in U64, bs \in U64, nt \in 0..(MaxMerges + 1) :
       \E ids \in SeqsUpTo(0..MaxChunkId, MaxMerges + 1) :
         range = ValidateRange(us, bo, bs, ids, nt)
    /\ merged = <<>>
    /\ valid = "none"
    /\ debug_build = FALSE
    /\ DescIdle /\ IoVecIdle /\ InfoIdle /\ CacheIdle /\ HttpIdle /\ HoleIdle /\ DevIdle

RangeValidate ==
    /\ valid = "none"
    /\ valid' = Ret(BlobIoRange_validate(range))
    /\ UNCHANGED <<range, merged, desc_vars, iovec_vars, debug_build,
                 info_vars, cache_vars, http_vars, hole_vars, dev_vars>>

NextValidate == RangeValidate

SpecValidate == InitValidate /\ [][NextValidate]_vars

(***************************************************************************)
(* SpecInfo: BlobInfo::new followed by calls of the mutators of the        *)
(* feature flags and of set_readahead.  info_calls keeps the features      *)
(* given to new, the names of the mutators called since and the arguments  *)
(* of the last set_readahead.                                              *)
(***************************************************************************)
InitInfo ==
    /\ \E chunk_count \in 0..MaxChunkCount, blob_features \in SUBSET Features :
         /\ info = BlobInfo_new(chunk_count, blob_features)
         /\ info_calls = [NoCalls EXCEPT !.features = blob_features]
    /\ debug_build = FALSE
    /\ DescIdle /\ IoVecIdle /\ RangeIdle /\ CacheIdle /\ HttpIdle /\ HoleIdle /\ DevIdle

Called(name) == [info_calls EXCEPT !.called = @ \cup {name}]

InfoSetCompressor ==
    /\ \E compressor \in Algorithms : info' = set_compressor(info, compressor)
    /\ info_calls' = Called("set_compressor")
    /\ UNCHANGED <<desc_vars, iovec_vars, range_vars, debug_build, cache_vars,
                 http_vars, hole_vars, dev_vars>>

InfoComputeFeatures ==
    /\ info' = compute_features(info)
    /\ info_calls' = Called("compute_features")
    /\ UNCHANGED <<desc_vars, iovec_vars, range_vars, debug_build, cache_vars,
                 http_vars, hole_vars, dev_vars>>

InfoSetFeatures ==
    /\ \E features \in SUBSET Features : info' = set_features(info, features)
    /\ info_calls' = Called("set_features")
    /\ UNCHANGED <<desc_vars, iovec_vars, range_vars, debug_build, cache_vars,
                 http_vars, hole_vars, dev_vars>>

InfoResetFeatures ==
    /\ info' = reset_features(info)
    /\ info_calls' = Called("reset_features")
    /\ UNCHANGED <<desc_vars, iovec_vars, range_vars, debug_build, cache_vars,
                 http_vars, hole_vars, dev_vars>>

InfoSetReadahead ==
    /\ \E offset \in U64, size \in U64 :
         /\ info' = set_readahead(info, offset, size)
         /\ info_calls' = [Called("set_readahead") EXCEPT !.readahead = <<offset, size>>]
    /\ UNCHANGED <<desc_vars, iovec_vars, range_vars, debug_build, cache_vars,
                 http_vars, hole_vars, dev_vars>>

NextInfo ==
    \/ InfoSetCompressor
    \/ InfoComputeFeatures
    \/ InfoSetFeatures
    \/ InfoResetFeatures
    \/ InfoSetReadahead

SpecInfo == InitInfo /\ [][NextInfo]_vars

(***************************************************************************)
(* Spec: the BlobDevice.  Init is the device BlobDevice::new returns for   *)
(* 0..MaxBlobs blobs; no prefetch has been started.                        *)
(***************************************************************************)
pure_vars == <<desc_vars, iovec_vars, range_vars, info_vars, debug_build,
               cache_vars, http_vars, hole_vars>>

InitDev ==
    /\ \E n \in 0..MaxBlobs :
         /\ blobs = [i \in 1..n |-> i]
         /\ blob_count = n
         /\ blob_ids = [i \in 1..n |-> "a"]
         /\ ncaches = n
    /\ running = {}
    /\ pc = [t \in Threads |-> "idle"]
    /\ op = [t \in Threads |-> NoOp]
    /\ ret = [t \in Threads |-> NoRet]
    /\ DescIdle /\ IoVecIdle /\ RangeIdle /\ InfoIdle /\ CacheIdle /\ HttpIdle /\ HoleIdle /\ debug_build = FALSE

Logged(t, e) == [op[t] EXCEPT !.log = Append(@, e)]

\* caches that the update calls in progress may still ask the factory for
Reserved ==
    LET need(u) == IF pc[u] = "upd_create" THEN op[u].n - Len(op[u].new) ELSE 0
    IN  need("u1") + need("u2")

\* update stops the prefetch whatever fs_prefetch is
AfterCreateStop(fs_prefetch) == "stop_load"

\* update stores the new vector without stopping the prefetch first
AfterCreateStore(fs_prefetch) == "store"

\* where update goes once the new vector is built (lines 865-871)
AfterCreate(fs_prefetch) == IF fs_prefetch THEN "stop_load" ELSE "store"

\* update without the length check
mismatch_never(n) == FALSE

\* the length check compares in one direction only
mismatch_if_longer(n) == Len(blobs) < n

\* self.blobs.load().len() != blob_infos.len()
blob_count_mismatch(n) == Len(blobs) # n

\* update(): the length check of lines 856-858
CallUpdate(t, n, fs_prefetch) ==
    /\ pc[t] = "idle"
    /\ ~blob_count_mismatch(n) => ncaches + Reserved + n <= MaxCaches
    /\ op' = [op EXCEPT ![t] = [NoOp EXCEPT !.name = "update", !.n = n,
                                             !.fs_prefetch = fs_prefetch,
                                             !.before = blobs]]
    /\ IF blob_count_mismatch(n)
       THEN /\ ret' = [ret EXCEPT ![t] = Err("InvalidInput")]
            /\ pc' = [pc EXCEPT ![t] = "done"]
       ELSE /\ ret' = [ret EXCEPT ![t] = NoRet]
            /\ pc' = [pc EXCEPT ![t] = IF n > 0 THEN "upd_create"
                                       ELSE AfterCreate(fs_prefetch)]
    /\ UNCHANGED <<blobs, blob_count, ncaches, running, blob_ids, pure_vars>>

\* the error of the factory is dropped and update goes on with the caches
\* built so far
FactoryFailedIgnored(t) ==
    /\ op' = [op EXCEPT ![t] = Logged(t, Event("new_blob_cache", 0))]
    /\ ret' = ret
    /\ pc' = [pc EXCEPT ![t] = AfterCreate(op[t].fs_prefetch)]

\* new_blob_cache(config, blob_info)? returns the factory's error (line 861)
FactoryFailed(t) ==
    /\ op' = [op EXCEPT ![t] = Logged(t, Event("new_blob_cache", 0))]
    /\ ret' = [ret EXCEPT ![t] = Err("Factory")]
    /\ pc' = [pc EXCEPT ![t] = "done"]

\* update(): one turn of the loop of lines 860-863; the factory either fails
\* or returns a cache
UpdCreate(t) ==
    /\ pc[t] = "upd_create"
    /\ \/ /\ FactoryFailed(t)
          /\ UNCHANGED ncaches
       \/ LET c == ncaches + 1
              new == Append(op[t].new, c)
          IN  /\ ncaches' = c
              /\ op' = [op EXCEPT ![t] =
                          [Logged(t, Event("new_blob_cache", c)) EXCEPT !.new = new]]
              /\ pc' = [pc EXCEPT ![t] = IF Len(new) = op[t].n
                                         THEN AfterCreate(op[t].fs_prefetch)
                                         ELSE "upd_create"]
              /\ UNCHANGED ret
    /\ UNCHANGED <<blobs, blob_count, running, blob_ids, pure_vars>>

\* what follows the loop of stop_prefetch() / start_prefetch()
AfterStop(t) == IF op[t].name = "update" THEN "store" ELSE "done"
AfterStart(t) == "done"

\* stop_prefetch(): self.blobs.load() of line 940
StopLoad(t) ==
    /\ pc[t] = "stop_load"
    /\ op' = [op EXCEPT ![t] = [@ EXCEPT !.snap = blobs, !.i = 1]]
    /\ pc' = [pc EXCEPT ![t] = IF blobs = <<>> THEN AfterStop(t) ELSE "stop_loop"]
    /\ ret' = [ret EXCEPT ![t] = IF blobs = <<>> /\ AfterStop(t) = "done"
                                 THEN Ok(0) ELSE @]
    /\ UNCHANGED <<blobs, blob_count, ncaches, running, blob_ids, pure_vars>>

\* stop_prefetch(): blob.stop_prefetch() of line 941 on the next cache
StopOne(t) ==
    /\ pc[t] = "stop_loop"
    /\ LET c == op[t].snap[op[t].i]
           last == op[t].i = Len(op[t].snap)
       IN  /\ running' = running \ {c}
           /\ op' = [op EXCEPT ![t] =
                       [Logged(t, Event("stop_prefetch", c)) EXCEPT !.i = @ + 1]]
           /\ pc' = [pc EXCEPT ![t] = IF last THEN AfterStop(t) ELSE "stop_loop"]
           /\ ret' = [ret EXCEPT ![t] = IF last /\ AfterStop(t) = "done" THEN Ok(0) ELSE @]
    /\ UNCHANGED <<blobs, blob_count, ncaches, blob_ids, pure_vars>>

\* update(): self.blobs.store(Arc::new(blobs)) of line 871
Store(t) ==
    /\ pc[t] = "store"
    /\ blobs' = op[t].new
    /\ op' = [op EXCEPT ![t] =
                [Logged(t, Event("store", 0)) EXCEPT
                    !.old = blobs,
                    !.old_running = {c \in running : \E i \in DOMAIN blobs : blobs[i] = c}]]
    /\ pc' = [pc EXCEPT ![t] = IF op[t].fs_prefetch THEN "start_load" ELSE "done"]
    /\ ret' = [ret EXCEPT ![t] = IF op[t].fs_prefetch THEN @ ELSE Ok(0)]
    /\ UNCHANGED <<blob_count, ncaches, running, blob_ids, pure_vars>>

\* start_prefetch(): self.blobs.load() of line 933
StartLoad(t) ==
    /\ pc[t] = "start_load"
    /\ op' = [op EXCEPT ![t] = [@ EXCEPT !.snap = blobs, !.i = 1]]
    /\ pc' = [pc EXCEPT ![t] = IF blobs = <<>> THEN AfterStart(t) ELSE "start_loop"]
    /\ ret' = [ret EXCEPT ![t] = IF blobs = <<>> THEN Ok(0) ELSE @]
    /\ UNCHANGED <<blobs, blob_count, ncaches, running, blob_ids, pure_vars>>

\* start_prefetch(): blob.start_prefetch() of line 934 on the next cache
StartOne(t) ==
    /\ pc[t] = "start_loop"
    /\ LET c == op[t].snap[op[t].i]
           last == op[t].i = Len(op[t].snap)
       IN  /\ running' = running \cup {c}
           /\ op' = [op EXCEPT ![t] =
                       [Logged(t, Event("start_prefetch", c)) EXCEPT !.i = @ + 1]]
           /\ pc' = [pc EXCEPT ![t] = IF last THEN AfterStart(t) ELSE "start_loop"]
           /\ ret' = [ret EXCEPT ![t] = IF last THEN Ok(0) ELSE @]
    /\ UNCHANGED <<blobs, blob_count, ncaches, blob_ids, pure_vars>>

\* the public start_prefetch() and stop_prefetch() of the device
CallStartPrefetch(t) ==
    /\ pc[t] = "idle"
    /\ op' = [op EXCEPT ![t] = [NoOp EXCEPT !.name = "start_prefetch"]]
    /\ pc' = [pc EXCEPT ![t] = "start_load"]
    /\ ret' = [ret EXCEPT ![t] = NoRet]
    /\ UNCHANGED <<blobs, blob_count, ncaches, running, blob_ids, pure_vars>>

CallStopPrefetch(t) ==
    /\ pc[t] = "idle"
    /\ op' = [op EXCEPT ![t] = [NoOp EXCEPT !.name = "stop_prefetch"]]
    /\ pc' = [pc EXCEPT ![t] = "stop_load"]
    /\ ret' = [ret EXCEPT ![t] = NoRet]
    /\ UNCHANGED <<blobs, blob_count, ncaches, running, blob_ids, pure_vars>>

\* the size of an empty vector is not looked at
empty_result_ok(desc) == Ok(0)

\* read_to() on a vector without descriptors (lines 890-895)
empty_result(desc) == IF desc.bi_size = 0 THEN Ok(0) ELSE Err("InvalidInput")

\* read_to(): the checks of lines 890-900, then w.write_from(&mut f, size, 0)
CallReadTo(t, desc) ==
    /\ pc[t] = "idle"
    /\ LET call == [NoOp EXCEPT !.name = "read_to", !.desc = desc]
           reject(r) == /\ op' = [op EXCEPT ![t] = call]
                        /\ ret' = [ret EXCEPT ![t] = r]
                        /\ pc' = [pc EXCEPT ![t] = "done"]
       IN  IF desc.bi_vec = <<>>
           THEN reject(empty_result(desc))
           ELSE IF ~validate(desc)
           THEN reject(Err("InvalidInput"))
           ELSE IF desc.bi_vec[1].blob_index >= blob_count
           THEN reject(Err("InvalidInput"))
           ELSE /\ op' = [op EXCEPT ![t] =
                            [call EXCEPT !.log = <<Event("write_from", 0)>>]]
                /\ ret' = [ret EXCEPT ![t] = NoRet]
                /\ pc' = [pc EXCEPT ![t] = "write_from"]
    /\ UNCHANGED <<blobs, blob_count, ncaches, running, blob_ids, pure_vars>>

\* the read always goes to the first cache
target_cache_first(v, index) == v[1]

\* blobs[index as usize] of line 1088 (sequences start at 1)
target_cache(v, index) == v[index + 1]

\* read_vectored_at_volatile() called by the writer (lines 1085-1092); the
\* cache's read succeeds with the requested size or fails
ReadVectored(t) ==
    /\ pc[t] = "write_from"
    /\ LET index == get_target_blob_index(op[t].desc)
           loaded == [op[t] EXCEPT !.snap = blobs]
       IN  IF index # None /\ index < Len(blobs)
           THEN /\ op' = [op EXCEPT ![t] =
                            [loaded EXCEPT !.log =
                                Append(@, Event("read", target_cache(blobs, index)))]]
                /\ \E r \in {Ok(op[t].desc.bi_size), Err("Io")} :
                     ret' = [ret EXCEPT ![t] = r]
           ELSE /\ op' = [op EXCEPT ![t] = loaded]
                /\ ret' = [ret EXCEPT ![t] = Err("InvalidInput")]
    /\ pc' = [pc EXCEPT ![t] = "done"]
    /\ UNCHANGED <<blobs, blob_count, ncaches, running, blob_ids, pure_vars>>

\* the call returns: its arguments, locals and result are dropped
Return(t) ==
    /\ pc[t] = "done"
    /\ pc' = [pc EXCEPT ![t] = "idle"]
    /\ op' = [op EXCEPT ![t] = NoOp]
    /\ ret' = [ret EXCEPT ![t] = NoRet]
    /\ UNCHANGED <<blobs, blob_count, ncaches, running, blob_ids, pure_vars>>

Update(t) ==
    \/ \E n \in 0..MaxBlobs, fs_prefetch \in BOOLEAN : CallUpdate(t, n, fs_prefetch)
    \/ UpdCreate(t)
    \/ Store(t)

Prefetch(t) == StopLoad(t) \/ StopOne(t) \/ StartLoad(t) \/ StartOne(t)

\* Spec: thread u1 calls update while thread r1 calls the other operations
NextDev ==
    \/ Update("u1") \/ Prefetch("u1") \/ Return("u1")
    \/ \E t \in Readers :
         \/ Return(t)
         \/ \E desc \in DevIoVecs : CallReadTo(t, desc)
         \/ ReadVectored(t)
         \/ CallStartPrefetch(t)
         \/ CallStopPrefetch(t)
         \/ Prefetch(t)

Spec == InitDev /\ [][NextDev]_vars

\* SpecConc: threads u1 and u2 call update(.., fs_prefetch = true) concurrently
UpdatePrefetch(t) ==
    \/ \E n \in 0..MaxBlobs : CallUpdate(t, n, TRUE)
    \/ UpdCreate(t)
    \/ Store(t)

NextConc == \E t \in Updaters : UpdatePrefetch(t) \/ Prefetch(t) \/ Return(t)

SpecConc == InitDev /\ [][NextConc]_vars

(***************************************************************************)
(* SpecIo: all_chunks_ready, prefetch and fetch_range_synchronous called   *)
(* by one thread on a device whose caches have any blob ids.  A call       *)
(* fixes the lengths of its lists; every turn of a loop draws the element  *)
(* of the list it is at, and with it what the cache, its chunk map and its *)
(* blob object answer.                                                     *)
(***************************************************************************)
InitIo ==
    /\ \E n \in 0..MaxBlobs :
         /\ blobs = [i \in 1..n |-> i]
         /\ blob_count = n
         /\ blob_ids \in [1..n -> BlobIds]
         /\ ncaches = n
    /\ running = {}
    /\ pc = [t \in Threads |-> "idle"]
    /\ op = [t \in Threads |-> NoOp]
    /\ ret = [t \in Threads |-> NoRet]
    /\ DescIdle /\ IoVecIdle /\ RangeIdle /\ InfoIdle /\ CacheIdle /\ HttpIdle /\ HoleIdle /\ debug_build = FALSE

\* get_blob_by_iovec() that takes the first cache whatever the index is
get_blob_by_iovec_first(v, io_vec) ==
    IF get_target_blob_index(io_vec) # None /\ v # <<>> THEN v[1] ELSE None

\* get_blob_by_iovec() on the vector v that self.blobs.load() returned
get_blob_by_iovec(v, io_vec) ==
    LET blob_index == get_target_blob_index(io_vec)
    IN  IF blob_index # None /\ blob_index < blob_count
        THEN v[blob_index + 1]
        ELSE None

\* get_blob_by_id() that falls back on the first cache when none matches
get_blob_by_id_default(v, blob_id) ==
    LET hits == {i \in DOMAIN v : blob_ids[i] = blob_id}
    IN  IF hits = {} THEN (IF v = <<>> THEN None ELSE v[1])
        ELSE v[CHOOSE i \in hits : \A j \in hits : i <= j]

\* get_blob_by_id(): the first cache of v whose blob_id() is blob_id
get_blob_by_id(v, blob_id) ==
    LET hits == {i \in DOMAIN v : blob_ids[i] = blob_id}
    IN  IF hits = {} THEN None
        ELSE v[CHOOSE i \in hits : \A j \in hits : i <= j]

\* chunk_map.is_ready(&desc.chunkinfo).unwrap_or(false)
is_ready_or_false(answer) == answer = "ready"

\* every descriptor of io_vec has a chunk that the chunk map of the cache at
\* the blob index of io_vec reports ready
AllReady(io_vec, answers) ==
    \A j \in DOMAIN io_vec.bi_vec :
        /\ get_target_blob_index(io_vec) < blob_count
        /\ answers[j] = "ready"

Finish(t, r) ==
    /\ ret' = [ret EXCEPT ![t] = r]
    /\ pc' = [pc EXCEPT ![t] = "done"]

Goto(t, label) ==
    /\ ret' = [ret EXCEPT ![t] = NoRet]
    /\ pc' = [pc EXCEPT ![t] = label]

\* all_chunks_ready(io_vecs) with n vectors
CallAllChunksReady(t, n) ==
    /\ pc[t] = "idle"
    /\ op' = [op EXCEPT ![t] = [NoOp EXCEPT !.name = "all_chunks_ready", !.n = n]]
    /\ IF n = 0 THEN Finish(t, Bool(TRUE)) ELSE Goto(t, "ready_loop")
    /\ UNCHANGED <<blobs, blob_count, ncaches, running, blob_ids, pure_vars>>

\* all_chunks_ready(): one turn of the loop of lines 947-958
ReadyIoVec(t) ==
    /\ pc[t] = "ready_loop"
    /\ \E io_vec \in TargetIoVecs :
       \E answers \in [DOMAIN io_vec.bi_vec -> Statuses] :
         LET blob == get_blob_by_iovec(blobs, io_vec)
             ready == \A j \in DOMAIN io_vec.bi_vec : is_ready_or_false(answers[j])
             o == [op[t] EXCEPT !.i = @ + 1, !.desc = io_vec, !.answers = answers,
                                !.snap = blobs,
                                !.expect = @ /\ AllReady(io_vec, answers),
                                !.call = IF blob # None
                                         THEN [NoCall EXCEPT !.kind = "get_chunk_map",
                                                             !.cache = blob]
                                         ELSE NoCall]
         IN  /\ op' = [op EXCEPT ![t] = o]
             /\ IF blob = None \/ ~ready
                THEN Finish(t, Bool(FALSE))
                ELSE IF o.i = o.n THEN Finish(t, Bool(TRUE)) ELSE Goto(t, "ready_loop")
    /\ UNCHANGED <<blobs, blob_count, ncaches, running, blob_ids, pure_vars>>

\* where prefetch() goes after i of its n_reqs requests and j of its n vectors
PrefetchAt(o, i, j) ==
    IF i < o.n_reqs THEN "pf_reqs" ELSE IF j < o.n THEN "pf_vecs" ELSE "done"

PrefetchGoto(t, label) ==
    IF label = "done" THEN Finish(t, Ok(0)) ELSE Goto(t, label)

\* prefetch(io_vecs, prefetches) with n vectors and n_reqs requests, at most
\* MaxItems together
CallPrefetch(t, n, n_reqs) ==
    /\ pc[t] = "idle"
    /\ n + n_reqs <= MaxItems
    /\ LET o == [NoOp EXCEPT !.name = "prefetch", !.n = n, !.n_reqs = n_reqs]
       IN  /\ op' = [op EXCEPT ![t] = o]
           /\ PrefetchGoto(t, PrefetchAt(o, 0, 0))
    /\ UNCHANGED <<blobs, blob_count, ncaches, running, blob_ids, pure_vars>>

\* prefetch(): one turn of the loop of lines 915-919; the result of the
\* cache's prefetch is dropped
PrefetchRequest(t) ==
    /\ pc[t] = "pf_reqs"
    /\ \E req \in Requests, res \in {"Ok", "Err"} :
         LET blob == get_blob_by_id(blobs, req.blob_id)
             idx == op[t].i + 1
             o == [op[t] EXCEPT !.i = idx, !.req = req, !.snap = blobs,
                                !.call = IF blob # None
                                         THEN PrefetchCall(blob, <<req>>, <<>>)
                                         ELSE NoCall,
                                !.log = IF blob # None
                                        THEN Append(@, [kind |-> "req", idx |-> idx,
                                                        res |-> res])
                                        ELSE @]
         IN  /\ op' = [op EXCEPT ![t] = o]
             /\ PrefetchGoto(t, PrefetchAt(o, idx, 0))
    /\ UNCHANGED <<blobs, blob_count, ncaches, running, blob_ids, pure_vars>>

\* prefetch(): one turn of the loop of lines 920-926
PrefetchIoVec(t) ==
    /\ pc[t] = "pf_vecs"
    /\ \E io_vec \in TargetIoVecs, res \in {"Ok", "Err"} :
         LET blob == get_blob_by_iovec(blobs, io_vec)
             idx == op[t].i - op[t].n_reqs + 1
             o == [op[t] EXCEPT !.i = @ + 1, !.desc = io_vec, !.snap = blobs,
                                !.call = IF blob # None
                                         THEN PrefetchCall(blob, <<>>, io_vec.bi_vec)
                                         ELSE NoCall,
                                !.log = IF blob # None
                                        THEN Append(@, [kind |-> "vec", idx |-> idx,
                                                        res |-> res])
                                        ELSE @]
         IN  /\ op' = [op EXCEPT ![t] = o]
             /\ PrefetchGoto(t, PrefetchAt(o, o.n_reqs, idx))
    /\ UNCHANGED <<blobs, blob_count, ncaches, running, blob_ids, pure_vars>>

\* no request is skipped for its length
skip_none(req) == FALSE

\* if req.len == 0 { continue; }
skip_request(req) == req.len = 0

\* fetch_range_synchronous(prefetches) with n_reqs requests
CallFetchRange(t, n_reqs) ==
    /\ pc[t] = "idle"
    /\ op' = [op EXCEPT ![t] = [NoOp EXCEPT !.name = "fetch_range_synchronous",
                                             !.n_reqs = n_reqs]]
    /\ IF n_reqs = 0 THEN Finish(t, Ok(0)) ELSE Goto(t, "fetch_loop")
    /\ UNCHANGED <<blobs, blob_count, ncaches, running, blob_ids, pure_vars>>

\* fetch_range_synchronous(): one turn of the loop of lines 985-1014; the
\* cache has a blob object or not, and the fetch succeeds or fails
FetchRequest(t) ==
    /\ pc[t] = "fetch_loop"
    /\ \E req \in Requests, object \in BOOLEAN, res \in {"Ok", "Io"} :
         LET cache == get_blob_by_id(blobs, req.blob_id)
             idx == op[t].i + 1
             seen == [op[t] EXCEPT !.i = idx, !.req = req, !.snap = blobs,
                                   !.call = NoCall]
             fetched == [seen EXCEPT !.call = FetchCall(cache, req.offset, req.len),
                                     !.log = Append(@, [kind |-> "fetch", idx |-> idx,
                                                        res |-> res])]
             continue(o) == /\ op' = [op EXCEPT ![t] = o]
                            /\ IF idx = o.n_reqs THEN Finish(t, Ok(0))
                               ELSE Goto(t, "fetch_loop")
         IN  IF skip_request(req) \/ cache = None
             THEN continue(seen)
             ELSE IF ~object
             THEN /\ op' = [op EXCEPT ![t] = [seen EXCEPT !.log =
                                Append(@, [kind |-> "no_object", idx |-> idx,
                                           res |-> "InvalidInput"])]]
                  /\ Finish(t, Err("InvalidInput"))
             ELSE IF res # "Ok"
             THEN /\ op' = [op EXCEPT ![t] = fetched]
                  /\ Finish(t, Err(res))
             ELSE continue(fetched)
    /\ UNCHANGED <<blobs, blob_count, ncaches, running, blob_ids, pure_vars>>

NextIo ==
    \E t \in Readers :
        \/ \E n \in 0..MaxItems : CallAllChunksReady(t, n)
        \/ ReadyIoVec(t)
        \/ \E n \in 0..MaxItems, n_reqs \in 0..MaxItems :
             CallPrefetch(t, n, n_reqs)
        \/ PrefetchRequest(t)
        \/ PrefetchIoVec(t)
        \/ \E n_reqs \in 0..MaxItems : CallFetchRange(t, n_reqs)
        \/ FetchRequest(t)
        \/ Return(t)

SpecIo == InitIo /\ [][NextIo]_vars

\* SpecSnap: thread u1 calls update(.., fs_prefetch = false) while thread r1
\* calls all_chunks_ready, prefetch and fetch_range_synchronous
NextSnap ==
    \/ \E n \in 0..MaxBlobs : CallUpdate("u1", n, FALSE)
    \/ UpdCreate("u1")
    \/ Store("u1")
    \/ Return("u1")
    \/ NextIo

SpecSnap == InitIo /\ [][NextSnap]_vars

(***************************************************************************)
(* Properties of the BlobDevice                                            *)
(***************************************************************************)
Range(f) == {f[i] : i \in DOMAIN f}

\* positions in the log of operation o of the events of kind k
Positions(o, k) == {i \in 1..Len(o.log) : o.log[i].kind = k}

\* positions in the log of operation o of the calls k makes on cache c
CallsOn(o, k, c) == {i \in Positions(o, k) : o.log[i].cache = c}

Succeeded(t, name) == pc[t] = "done" /\ op[t].name = name /\ ret[t].kind = "Ok"

\* C1: in a successful update(.., fs_prefetch = true) that no other update
\* overlaps, stop_prefetch is called on every cache of the old vector before
\* the new vector is stored, and start_prefetch is called on every cache of
\* the new vector, and only after the store.
C1_StopStoreStart ==
    LET o == op["u1"]
        stores == Positions(o, "store")
    IN  (o.name = "update" /\ o.fs_prefetch) =>
            /\ \A s \in stores :
                 /\ o.old = o.before
                 /\ \A c \in Range(o.old) :
                      \E i \in CallsOn(o, "stop_prefetch", c) : i < s
                 /\ \A i \in Positions(o, "stop_prefetch") : i < s
            /\ \A j \in Positions(o, "start_prefetch") :
                 /\ \E s \in stores : s < j
                 /\ o.log[j].cache \in Range(o.new)
            /\ Succeeded("u1", "update") =>
                 /\ Cardinality(stores) = 1
                 /\ blobs = o.new
                 /\ \A c \in Range(o.new) : CallsOn(o, "start_prefetch", c) # {}

\* an update of a device with two blobs has stopped, stored and started
C1_Witness ==
    /\ Succeeded("u1", "update")
    /\ op["u1"].fs_prefetch
    /\ Len(op["u1"].old) = 2
    /\ Len(op["u1"].new) = 2

\* C2: update with blob_infos of another length than the cache vector fails
\* with InvalidInput and leaves the vector as it was; the factory creates no
\* cache and no stop_prefetch or start_prefetch is issued, whatever
\* fs_prefetch is.
C2_CountMismatch ==
    LET o == op["u1"]
    IN  (o.name = "update" /\ o.n # Len(o.before)) =>
            /\ pc["u1"] = "done"
            /\ ret["u1"] = Err("InvalidInput")
            /\ blobs = o.before
            /\ o.log = <<>>

\* an update with prefetch and one blob_info too few was rejected
C2_Witness ==
    /\ pc["u1"] = "done"
    /\ op["u1"].name = "update"
    /\ op["u1"].fs_prefetch
    /\ op["u1"].n + 1 = Len(blobs)
    /\ ret["u1"].kind = "InvalidInput"

\* C3: when the factory fails for a blob_info, update returns that error, the
\* old vector stays in service, and update has called neither stop_prefetch
\* nor start_prefetch, even with fs_prefetch = true.
C3_FactoryError ==
    LET o == op["u1"]
    IN  (o.name = "update" /\ CallsOn(o, "new_blob_cache", 0) # {}) =>
            /\ pc["u1"] = "done"
            /\ ret["u1"] = Err("Factory")
            /\ blobs = o.before
            /\ Positions(o, "store") = {}
            /\ Positions(o, "stop_prefetch") = {}
            /\ Positions(o, "start_prefetch") = {}

\* the factory failed on the second blob_info of an update with prefetch
C3_Witness ==
    /\ pc["u1"] = "done"
    /\ op["u1"].name = "update"
    /\ op["u1"].fs_prefetch
    /\ Len(op["u1"].log) = 2
    /\ op["u1"].log[2] = Event("new_blob_cache", 0)

\* C4: with concurrent update(.., fs_prefetch = true) calls, no cache of a
\* vector is running prefetch at the moment the vector is replaced, and once
\* all updates have returned the caches with prefetch running are caches of
\* the vector in service, each started once.
C4_ConcurrentUpdates ==
    /\ \A t \in Updaters :
         Positions(op[t], "store") # {} => op[t].old_running = {}
    /\ (\A t \in Updaters : pc[t] \in {"idle", "done"}) =>
         /\ running \subseteq Range(blobs)
         /\ \A c \in running :
              Cardinality(CallsOn(op["u1"], "start_prefetch", c))
                  + Cardinality(CallsOn(op["u2"], "start_prefetch", c)) <= 1

\* C5: read_to on a BlobIoVec whose descriptors do not all have the same
\* blob_index: validate() is false, read_to returns InvalidInput, no cache
\* read is invoked and the writer is not touched.
C5_MultiBlobRejected ==
    \A t \in Readers :
        LET o == op[t]
        IN  (o.name = "read_to" /\ o.desc.bi_vec # <<>> /\ ~AllSameBlob(o.desc)) =>
                /\ ~validate(o.desc)
                /\ pc[t] = "done"
                /\ ret[t] = Err("InvalidInput")
                /\ o.log = <<>>

\* read_to has rejected a vector of descriptors of blobs 0 and 1 on a device
\* that has both blobs
C5_Witness ==
    \E t \in Readers :
        /\ pc[t] = "done"
        /\ op[t].name = "read_to"
        /\ Len(op[t].desc.bi_vec) = 2
        /\ op[t].desc.bi_vec[1].blob_index = 0
        /\ op[t].desc.bi_vec[2].blob_index = 1
        /\ blob_count = 2
        /\ ret[t].kind = "InvalidInput"

\* C6: read_to on a BlobIoVec without descriptors returns Ok(0) when bi_size
\* is 0 and InvalidInput when it is not; no cache read is invoked and the
\* writer is not touched.
C6_EmptyVector ==
    \A t \in Readers :
        LET o == op[t]
        IN  (o.name = "read_to" /\ o.desc.bi_vec = <<>>) =>
                /\ pc[t] = "done"
                /\ o.desc.bi_size = 0 => ret[t] = Ok(0)
                /\ o.desc.bi_size # 0 => ret[t] = Err("InvalidInput")
                /\ o.log = <<>>

\* read_to has rejected an empty vector with a nonzero bi_size
C6_Witness ==
    \E t \in Readers :
        /\ pc[t] = "done"
        /\ op[t].name = "read_to"
        /\ op[t].desc.bi_vec = <<>>
        /\ op[t].desc.bi_size # 0
        /\ ret[t].kind = "InvalidInput"

\* C7: read_to on a valid single-blob BlobIoVec whose blob_index is not below
\* blob_count returns InvalidInput and invokes no cache; with blob_index
\* below blob_count the read is passed to the cache at position blob_index of
\* the cache vector, and to no other.
C7_ReadTarget ==
    \A t \in Readers :
        LET o == op[t]
            index == get_target_blob_index(o.desc)
        IN  (o.name = "read_to" /\ o.desc.bi_vec # <<>> /\ validate(o.desc)) =>
                /\ index >= blob_count =>
                     /\ pc[t] = "done"
                     /\ ret[t] = Err("InvalidInput")
                     /\ Positions(o, "read") = {}
                /\ (index < blob_count /\ pc[t] = "done") =>
                     /\ Cardinality(Positions(o, "read")) = 1
                     /\ \A i \in Positions(o, "read") :
                          /\ Len(o.snap) = blob_count
                          /\ o.log[i].cache = o.snap[index + 1]

\* a read of blob 1 went to the second cache of a vector that update stored
C7_Witness ==
    \E t \in Readers :
        /\ pc[t] = "done"
        /\ op[t].name = "read_to"
        /\ get_target_blob_index(op[t].desc) = 1
        /\ Positions(op[t], "read") # {}
        /\ op[t].snap # <<1, 2>>
        /\ ret[t].kind = "Ok"

\* the caches of the vector v whose blob_id() is blob_id
Matching(v, blob_id) == {v[j] : j \in {k \in DOMAIN v : blob_ids[k] = blob_id}}

\* the events of a log are in the order of their idx
InOrder(log) == \A p, q \in DOMAIN log : p < q => log[p].idx < log[q].idx

\* C14: all_chunks_ready returns true exactly when every descriptor of
\* every vector of the list has a chunk that the chunk map of the cache at
\* the vector's blob_index reports ready (Ok(true)); this holds for the
\* empty list and for lists with vectors without descriptors, and a vector
\* with blob_index >= blob_count makes the result false.
C14_AllChunksReady ==
    \A t \in Readers :
        LET o == op[t]
        IN  (pc[t] = "done" /\ o.name = "all_chunks_ready") =>
                /\ ret[t] \in {Bool(TRUE), Bool(FALSE)}
                /\ ret[t] = Bool(TRUE) => (o.i = o.n /\ o.expect)
                /\ (o.i = o.n /\ o.expect) => ret[t] = Bool(TRUE)

\* C15: prefetch always returns Ok and handles every element of both lists
\* whatever the caches' prefetch returned.  A request whose blob_id matches
\* a cache is passed to one such cache as a one-element request list without
\* descriptors; a vector is passed to the cache at its blob_index with its
\* descriptors and without requests; requests are dispatched before vectors,
\* each in input order.
C15_PrefetchBestEffort ==
    \A t \in Readers :
        LET o == op[t]
            index == get_target_blob_index(o.desc)
        IN  o.name = "prefetch" =>
                /\ ret[t] \in {NoRet, Ok(0)}
                /\ pc[t] = "done" => (ret[t] = Ok(0) /\ o.i = o.n_reqs + o.n)
                /\ (0 < o.i /\ o.i <= o.n_reqs) =>
                     IF Matching(o.snap, o.req.blob_id) = {}
                     THEN o.call = NoCall
                     ELSE /\ o.call.cache \in Matching(o.snap, o.req.blob_id)
                          /\ o.call = PrefetchCall(o.call.cache, <<o.req>>, <<>>)
                          /\ o.log[Len(o.log)].kind = "req"
                          /\ o.log[Len(o.log)].idx = o.i
                /\ o.i > o.n_reqs =>
                     IF index # None /\ index < blob_count
                     THEN /\ o.call = PrefetchCall(o.snap[index + 1], <<>>, o.desc.bi_vec)
                          /\ o.log[Len(o.log)].kind = "vec"
                          /\ o.log[Len(o.log)].idx = o.i - o.n_reqs
                     ELSE o.call = NoCall
                /\ \A p, q \in DOMAIN o.log :
                     p < q => /\ o.log[p].kind = "vec" => o.log[q].kind = "vec"
                              /\ o.log[p].kind = o.log[q].kind => o.log[p].idx < o.log[q].idx

\* the prefetch of a request failed, the vector after it was still passed to
\* its cache and prefetch returned Ok
C15_Witness ==
    \E t \in Readers :
        /\ pc[t] = "done"
        /\ op[t].name = "prefetch"
        /\ ret[t] = Ok(0)
        /\ Len(op[t].log) = 2
        /\ op[t].log[1].kind = "req" /\ op[t].log[1].res = "Err"
        /\ op[t].log[2].kind = "vec"
        /\ op[t].call.cache = 2

\* C16: fetch_range_synchronous calls fetch_range_uncompressed(offset, len)
\* on the blob object of a cache whose blob_id matches, once for a request
\* with len != 0 and never for a request with len == 0; it returns
\* InvalidInput when the cache it resolved has no blob object, and the
\* backend's error when fetch_range_uncompressed fails.
C16_FetchRange ==
    \A t \in Readers :
        LET o == op[t]
            n == Len(o.log)
            matching == Matching(o.snap, o.req.blob_id)
        IN  o.name = "fetch_range_synchronous" =>
                /\ InOrder(o.log)
                /\ \A p \in 1..(n - 1) : o.log[p].kind = "fetch" /\ o.log[p].res = "Ok"
                /\ (o.i > 0 /\ (o.req.len = 0 \/ matching = {})) =>
                     /\ o.call = NoCall
                     /\ \A p \in 1..n : o.log[p].idx # o.i
                /\ (o.i > 0 /\ o.req.len # 0 /\ matching # {}) =>
                     /\ o.log[n].idx = o.i
                     /\ o.log[n].kind = "fetch" =>
                          /\ o.call.cache \in matching
                          /\ o.call = FetchCall(o.call.cache, o.req.offset, o.req.len)
                          /\ o.log[n].res # "Ok" =>
                               (pc[t] = "done" /\ ret[t] = Err(o.log[n].res))
                     /\ o.log[n].kind # "fetch" =>
                          /\ o.call = NoCall
                          /\ pc[t] = "done" /\ ret[t] = Err("InvalidInput")
                /\ (pc[t] = "done" /\ ret[t] = Ok(0)) =>
                     /\ o.i = o.n_reqs
                     /\ \A p \in 1..n : o.log[p].kind = "fetch" /\ o.log[p].res = "Ok"
                /\ pc[t] = "done" => ret[t] \in {Ok(0), Err("InvalidInput"), Err("Io")}

\* the first request was fetched and the fetch of the second one failed
C16_Witness ==
    \E t \in Readers :
        /\ pc[t] = "done"
        /\ op[t].name = "fetch_range_synchronous"
        /\ ret[t] = Err("Io")
        /\ Len(op[t].log) = 2
        /\ op[t].log[2].res = "Io"
        /\ op[t].call.len = U64Max

(***************************************************************************)
(* Properties of the request model                                         *)
(***************************************************************************)
\* C8: for every BlobIoVec, of any length, validate() returns true exactly
\* when all its descriptors have the same blob_index.
C8_ValidateIffSameBlob ==
    iv_res \in {"true", "false"} => (iv_res = "true" <=> AllSameBlob(iovec))

\* validate() has rejected a vector whose first two descriptors agree
C8_Witness ==
    /\ iv_res = "false"
    /\ Len(iovec.bi_vec) = 3
    /\ iovec.bi_vec[1].blob_index = iovec.bi_vec[2].blob_index

\* C9: is_continuous(self, prev) is true exactly when both descriptors have
\* the same blob_index and prev.compress_offset + prev.compress_size, added
\* without overflow of the offset type, equals self.compress_offset; when the
\* addition overflows the result is false.
C9_IsContinuous ==
    d_res \in {"true", "false"} =>
        LET end == d_prev.compress_offset + d_prev.compress_size
        IN  /\ d_res = "true" <=> /\ d_prev.blob_index = d_self.blob_index
                                  /\ end <= U64Max
                                  /\ end = d_self.compress_offset
            /\ end > U64Max => d_res = "false"

\* the addition overflows and would wrap around onto self.compress_offset
C9_Witness ==
    /\ d_res = "false"
    /\ d_prev.blob_index = d_self.blob_index
    /\ d_prev.compress_offset + d_prev.compress_size > U64Max
    /\ wrapping_add(d_prev.compress_offset, d_prev.compress_size) = d_self.compress_offset

Adjacent(chunks) ==
    \A i \in 1..(Len(chunks) - 1) :
        chunks[i + 1].compress_offset = chunks[i].compress_offset + chunks[i].compress_size

PairwiseContinuous(descs) ==
    \A i \in 1..(Len(descs) - 1) : is_continuous(descs[i + 1], descs[i])

RECURSIVE SumSizes(_)
SumSizes(descs) ==
    IF descs = <<>> THEN 0 ELSE Head(descs).compress_size + SumSizes(Tail(descs))

DistinctIds(chunks) ==
    \A i \in 1..(Len(chunks) - 1) : chunks[i].id # chunks[i + 1].id

\* the range lies within its blob
InBlob(r) ==
    /\ r.blob_offset + r.blob_size <= U64Max
    /\ r.blob_offset + r.blob_size <= r.uncompressed_size
    /\ r.blob_offset < r.uncompressed_size

\* C12: validate() returns false whenever two consecutive chunks have the
\* same id, and true for a range within the blob that has as many tags as
\* chunks and no two consecutive chunks with the same id.
C12_DuplicateIdsRejected ==
    valid \in {"true", "false"} =>
        /\ ~DistinctIds(range.chunks) => valid = "false"
        /\ (InBlob(range) /\ Len(range.chunks) = Len(range.tags)
                /\ DistinctIds(range.chunks)) => valid = "true"

\* C13: for a range with one chunk and one tag, validate() is true exactly
\* when blob_offset + blob_size does not overflow, is at most the blob's
\* uncompressed_size, and blob_offset is below the uncompressed_size.
C13_SingleChunkInBlob ==
    (valid \in {"true", "false"} /\ Len(range.chunks) = 1 /\ Len(range.tags) = 1) =>
        (valid = "true" <=>
            /\ range.blob_offset + range.blob_size <= U64Max
            /\ range.blob_offset + range.blob_size <= range.uncompressed_size
            /\ range.blob_offset < range.uncompressed_size)

\* an empty range at the very end of the blob is rejected
C13_Witness ==
    /\ valid = "false"
    /\ Len(range.chunks) = 1 /\ Len(range.tags) = 1
    /\ range.blob_size = 0
    /\ range.blob_offset = range.uncompressed_size
    /\ range.uncompressed_size > 0

(***************************************************************************)
(* Properties of BlobInfo                                                  *)
(***************************************************************************)
\* C17: after BlobInfo::new and any sequence of set_compressor calls,
\* is_stargz() is true exactly when compressor() is GZip.
C17_StargzIffGZip ==
    info_calls.called \subseteq {"set_compressor"} =>
        (is_stargz(info) <=> info.compressor = "GZip")

\* C18: for a BlobInfo created with an empty feature set,
\* has_feature(V5_NO_EXT_BLOB_TABLE) is true exactly when chunk_count is 0,
\* after new and after any sequence of set_features, reset_features,
\* set_compressor and compute_features.
C18_NoExtIffNoChunks ==
    info_calls.features = {} =>
        (has_feature(info, {"V5_NO_EXT_BLOB_TABLE"}) <=> info.chunk_count = 0)


(***************************************************************************)
(* SpecCache: the read path of a blob cache for one chunk, read by several *)
(* threads.  chunk.ready is the chunk map entry, chunk.fetching the reader *)
(* that holds the chunk's single-flight slot, chunk.inflight the backend   *)
(* fetches in flight for the chunk, chunk.stored the bytes in the local    *)
(* cache and chunk.last the outcome of the last finished fetch.  The       *)
(* backend returns the chunk's bytes, damaged bytes or an error.           *)
(* rd[r].waited, rd[r].retry and rd[r].issued record what the read did:    *)
(* it waited on another reader's fetch, it scanned the chunk after a       *)
(* failed digest with no fetch in flight, it issued a backend fetch.       *)
(***************************************************************************)
InitCache ==
    /\ \E v \in BOOLEAN : chunk = [NoChunk EXCEPT !.validate_data = v]
    /\ rd = [r \in CacheReaders |-> NoRead]
    /\ DescIdle /\ IoVecIdle /\ RangeIdle /\ InfoIdle /\ HttpIdle /\ HoleIdle /\ DevIdle
    /\ debug_build = FALSE

CacheStep(r, c, x) ==
    /\ chunk' = c
    /\ rd' = [rd EXCEPT ![r] = x]
    /\ UNCHANGED <<desc_vars, iovec_vars, range_vars, info_vars, debug_build,
                 http_vars, hole_vars, dev_vars>>

\* read(): a reader starts reading the chunk
ReadStart(r) ==
    /\ rd[r].pc = "idle"
    /\ chunk.reads < MaxReads
    /\ CacheStep(r, [chunk EXCEPT !.reads = @ + 1], [NoRead EXCEPT !.pc = "scan"])

\* step 1: the chunk is ready, missing with no fetch in flight, or being
\* fetched by another reader
scan_no_rendezvous(c) ==
    IF c.ready THEN "copy" ELSE "fetch"

scan(c) ==
    IF c.ready THEN "copy"
    ELSE IF c.fetching = "none" THEN "fetch"
    ELSE "wait"

Scan(r) ==
    /\ rd[r].pc = "scan"
    /\ LET to == scan(chunk)
           free == ~chunk.ready /\ chunk.fetching = "none"
       IN CacheStep(r,
              IF to = "fetch" THEN [chunk EXCEPT !.fetching = r] ELSE chunk,
              [rd[r] EXCEPT !.pc = to,
                            !.waited = @ \/ to = "wait",
                            !.retry = @ \/ (free /\ chunk.last = "corrupted")])

\* the wait for another reader's fetch ends when that fetch has finished
Wait(r) ==
    /\ rd[r].pc = "wait"
    /\ chunk.fetching = "none"
    /\ CacheStep(r, chunk, [rd[r] EXCEPT !.pc = "scan"])

\* step 3: one backend request for the missing chunk
FetchStart(r) ==
    /\ rd[r].pc = "fetch"
    /\ CacheStep(r, [chunk EXCEPT !.inflight = @ + 1],
                 [rd[r] EXCEPT !.pc = "fetching", !.issued = TRUE])

release(c, r, outcome) ==
    [c EXCEPT !.fetching = IF @ = r THEN "none" ELSE @, !.last = outcome]

\* the backend answers with bytes, or the request fails
FetchDone(r) ==
    /\ rd[r].pc = "fetching"
    /\ \/ \E b \in Bytes :
             CacheStep(r, [chunk EXCEPT !.inflight = @ - 1],
                       [rd[r] EXCEPT !.pc = "validate", !.buf = b])
       \/ CacheStep(r, release([chunk EXCEPT !.inflight = @ - 1], r, "io"),
                    [rd[r] EXCEPT !.pc = "done", !.res = "Io"])

\* step 4: the digest of the bytes about to be committed is validated when
\* the blob asks for it
digest_unchecked(c, buf) == TRUE

digest_passes(c, buf) == ~c.validate_data \/ buf = "data"

Validate(r) ==
    /\ rd[r].pc = "validate"
    /\ IF digest_passes(chunk, rd[r].buf)
       THEN CacheStep(r,
                release([chunk EXCEPT !.stored = rd[r].buf, !.ready = TRUE],
                        r, "committed"),
                [rd[r] EXCEPT !.pc = "copy"])
       ELSE CacheStep(r, release(chunk, r, "corrupted"),
                [rd[r] EXCEPT !.pc = "done", !.res = "DataCorrupted"])

\* step 5 and 6: the bytes of the ready chunk are copied to the reader
Copy(r) ==
    /\ rd[r].pc = "copy"
    /\ CacheStep(r, chunk,
                 [rd[r] EXCEPT !.pc = "done", !.res = "Ok", !.bytes = chunk.stored])

ReadReturn(r) ==
    /\ rd[r].pc = "done"
    /\ CacheStep(r, chunk, NoRead)

NextCache ==
    \E r \in CacheReaders :
        \/ ReadStart(r)
        \/ Scan(r)
        \/ Wait(r)
        \/ FetchStart(r)
        \/ FetchDone(r)
        \/ Validate(r)
        \/ Copy(r)
        \/ ReadReturn(r)

SpecCache == InitCache /\ [][NextCache]_vars

(***************************************************************************)
(* Properties of the blob cache read path                                  *)
(***************************************************************************)
\* C19: when several readers read the same not-yet-ready chunk at the same
\* time, at most one backend fetch for the chunk is in flight, and all the
\* readers whose read succeeds obtain the same bytes
C19_SingleFlight ==
    /\ chunk.inflight <= 1
    /\ Cardinality({r \in CacheReaders : rd[r].pc = "fetching"}) <= 1
    /\ \A r1, r2 \in CacheReaders :
           rd[r1].res = "Ok" /\ rd[r2].res = "Ok" => rd[r1].bytes = rd[r2].bytes

\* two concurrent reads of the chunk have succeeded, one after issuing the
\* fetch and one after waiting for it
C19_Witness ==
    \E r1, r2 \in CacheReaders :
        /\ r1 # r2
        /\ rd[r1].res = "Ok" /\ rd[r1].issued
        /\ rd[r2].res = "Ok" /\ rd[r2].waited /\ ~rd[r2].issued

\* C20: a read whose fetched bytes fail digest validation fails with
\* DataCorrupted and returns no bytes; the chunk is not marked ready by it
\* (a ready chunk of a validating blob holds the chunk's bytes, and the chunk
\* is absent while its last fetch is the corrupted one); and a read that
\* scans the chunk after the failure with no fetch in flight issues a new
\* backend fetch
C20_DigestFailure ==
    /\ \A r \in CacheReaders :
           /\ chunk.validate_data /\ rd[r].buf = "damaged"
                  /\ rd[r].pc \in {"copy", "done"}
              => rd[r].res = "DataCorrupted" /\ rd[r].bytes = "none"
           /\ rd[r].retry => rd[r].pc = "fetch" \/ rd[r].issued
    /\ chunk.validate_data /\ chunk.ready => chunk.stored = "data"
    /\ chunk.last = "corrupted" => ~chunk.ready

\* a read has failed with DataCorrupted, the chunk is absent, and a later
\* read of the chunk has issued a new backend fetch
C20_Witness ==
    \E r1, r2 \in CacheReaders :
        /\ r1 # r2
        /\ rd[r1].res = "DataCorrupted"
        /\ rd[r2].retry /\ rd[r2].issued
        /\ ~chunk.ready


(***************************************************************************)
(* SpecHttp: the HTTP server thread spawned by start_http_thread, and the  *)
(* API server that receives on to_api and answers on from_api.  The thread *)
(* polls; a batch of events holds EXIT_TOKEN once the waker was woken and  *)
(* REQUEST_TOKEN when HTTP requests are pending; a request is handled by a *)
(* route that calls kick_api_server, or by none.  ht.call records the      *)
(* kick_api_server call: its request id, the messages it sent, whether it  *)
(* woke the notifier, the state of the channel ends when it used them, the *)
(* message it took from from_api (got) and the response it returns         *)
(* (reply).  ht.sent is every message the thread has put on to_api.        *)
(***************************************************************************)
InitHttp ==
    /\ \E n \in BOOLEAN : ht = [NoThread EXCEPT !.notifier = n]
    /\ to_api = <<>> /\ from_api = <<>> /\ api = NoServer
    /\ DescIdle /\ IoVecIdle /\ RangeIdle /\ InfoIdle /\ CacheIdle /\ HoleIdle
    /\ DevIdle /\ debug_build = FALSE

HttpStep(t, q, a) ==
    /\ ht' = t
    /\ to_api' = q
    /\ api' = a
    /\ UNCHANGED <<desc_vars, iovec_vars, range_vars, info_vars, debug_build,
                   cache_vars, hole_vars, dev_vars>>

\* Sender::send of std::sync::mpsc: fails when the receiver is gone
chan_send(alive, q, m) ==
    IF alive THEN [ok |-> TRUE, q |-> Append(q, m)] ELSE [ok |-> FALSE, q |-> q]

\* the batches of events a poll can return
Batches(woken) ==
    {<<"REQUEST">>} \cup
    (IF woken THEN {<<"EXIT">>, <<"EXIT", "REQUEST">>, <<"REQUEST", "EXIT">>}
     ELSE {})

\* the owner of the Waker that start_http_thread returned wakes it
WakeHttp ==
    /\ ~ht.exit_req
    /\ ht.pc # "done"
    /\ HttpStep([ht EXCEPT !.woken = TRUE, !.exit_req = TRUE], to_api, api)
    /\ UNCHANGED from_api

\* poll.poll() returns events
PollOk ==
    /\ ht.pc = "poll"
    /\ \E b \in Batches(ht.woken) :
          /\ (\E i \in 1..Len(b) : b[i] = "REQUEST") => ht.polls < MaxPolls
          /\ HttpStep([ht EXCEPT !.pc = "events", !.batch = b,
                                 !.polls = @ + 1,
                                 !.woken = @ /\ \A i \in 1..Len(b) : b[i] # "EXIT"],
                      to_api, api)
    /\ UNCHANGED from_api

\* poll.poll() fails with an error other than Interrupted
PollErr ==
    /\ ht.pc = "poll"
    /\ HttpStep([ht EXCEPT !.pc = "exit_send", !.poll_err = TRUE], to_api, api)
    /\ UNCHANGED from_api

\* EXIT_TOKEN => do_exit = true, and a variant that leaves the loop at once
exit_token_now(t) ==
    [t EXCEPT !.do_exit = TRUE, !.batch = Tail(@), !.pc = "exit_send"]

exit_token(t) == [t EXCEPT !.do_exit = TRUE, !.batch = Tail(@)]

\* one turn of the loop over the events of the batch, and the test of do_exit
\* after it
NextEvent ==
    /\ ht.pc = "events"
    /\ IF ht.batch = <<>>
       THEN HttpStep([ht EXCEPT !.pc = IF ht.do_exit THEN "exit_send" ELSE "poll"],
                     to_api, api)
       ELSE IF Head(ht.batch) = "EXIT"
       THEN HttpStep(exit_token(ht), to_api, api)
       ELSE \/ \E n \in 0..MaxReqVec :
                  HttpStep([ht EXCEPT !.pc = "requests", !.reqs = n,
                                      !.batch = Tail(@)], to_api, api)
            \/ HttpStep([ht EXCEPT !.batch = Tail(@)], to_api, api)
    /\ UNCHANGED from_api

\* one turn of the loop over request_vec: handle_http_request finds no
\* route, or a route that calls kick_api_server
NextRequest ==
    /\ ht.pc = "requests"
    /\ IF ht.reqs = 0
       THEN HttpStep([ht EXCEPT !.pc = "events"], to_api, api)
       ELSE \/ HttpStep([ht EXCEPT !.pc = "respond", !.call = NoKick], to_api, api)
            \/ /\ ht.kicks < MaxKicks
               /\ HttpStep([ht EXCEPT !.pc = "k_send", !.kicks = @ + 1,
                                      !.call = [NoKick EXCEPT !.id = ht.kicks + 1]],
                           to_api, api)
    /\ UNCHANGED from_api

\* kick_api_server: to_api.send(Some(request))
KickSend ==
    /\ ht.pc = "k_send"
    /\ LET m == Some(ht.call.id)
           r == chan_send(api.rx, to_api, m)
       IN  IF r.ok
           THEN HttpStep([ht EXCEPT !.pc = IF ht.notifier THEN "k_wake" ELSE "k_recv",
                                    !.call.sent = @ + 1,
                                    !.call.rx = api.rx,
                                    !.sent = Append(@, m)],
                         r.q, api)
           ELSE HttpStep([ht EXCEPT !.pc = "respond", !.call.rx = api.rx,
                                    !.call.res = "RequestSend"],
                         r.q, api)
    /\ UNCHANGED from_api

\* kick_api_server: waker.wake() on the notifier succeeds or fails
KickWake ==
    /\ ht.pc = "k_wake"
    /\ \/ HttpStep([ht EXCEPT !.pc = "k_recv", !.call.woke = TRUE], to_api,
                   [api EXCEPT !.wakes = @ + 1])
       \/ HttpStep([ht EXCEPT !.pc = "respond", !.call.res = "Wakeup"], to_api, api)
    /\ UNCHANGED from_api

\* the response kick_api_server returns for the message it received
kick_result_ok(msg) == [msg EXCEPT !.payload = "Ok"]

kick_result(msg) == msg

\* kick_api_server: from_api.recv() blocks until a response is there or the
\* sender is gone
KickRecv ==
    /\ ht.pc = "k_recv"
    /\ IF from_api # <<>>
       THEN /\ HttpStep([ht EXCEPT !.pc = "respond", !.call.res = "reply",
                                   !.call.tx = api.tx,
                                   !.call.got = Head(from_api),
                                   !.call.reply = kick_result(Head(from_api))],
                        to_api, api)
            /\ from_api' = Tail(from_api)
       ELSE /\ ~api.tx
            /\ HttpStep([ht EXCEPT !.pc = "respond", !.call.res = "ResponseRecv",
                                   !.call.tx = api.tx],
                        to_api, api)
            /\ UNCHANGED from_api

\* server.respond(reply)
Respond ==
    /\ ht.pc = "respond"
    /\ HttpStep([ht EXCEPT !.pc = "requests", !.reqs = @ - 1], to_api, api)
    /\ UNCHANGED from_api

\* exit_api_server: to_api.send(None)
ExitSend ==
    /\ ht.pc = "exit_send"
    /\ LET r == chan_send(api.rx, to_api, NoneMsg)
       IN  IF r.ok
           THEN HttpStep([ht EXCEPT !.pc = IF ht.notifier THEN "exit_wake" ELSE "return",
                                    !.sent = Append(@, NoneMsg)],
                         r.q, api)
           ELSE HttpStep([ht EXCEPT !.pc = "return"], r.q, api)
    /\ UNCHANGED from_api

\* exit_api_server: waker.wake() on the notifier, its failure only logged
ExitWake ==
    /\ ht.pc = "exit_wake"
    /\ \/ HttpStep([ht EXCEPT !.pc = "return"], to_api, [api EXCEPT !.wakes = @ + 1])
       \/ HttpStep([ht EXCEPT !.pc = "return"], to_api, api)
    /\ UNCHANGED from_api

\* the thread returns Err(e) after a poll error and Ok(()) after the loop
ThreadReturn ==
    /\ ht.pc = "return"
    /\ HttpStep([ht EXCEPT !.pc = "done",
                           !.result = IF ht.poll_err THEN "Err" ELSE "Ok"],
                to_api, api)
    /\ UNCHANGED from_api

\* the API server takes the next message from to_api
ApiRecv ==
    /\ api.rx
    /\ to_api # <<>>
    /\ LET m == Head(to_api)
       IN  HttpStep(ht, Tail(to_api),
                    IF m.kind = "Some"
                    THEN [api EXCEPT !.pending = Append(@, m.id)]
                    ELSE [api EXCEPT !.nones = @ + 1])
    /\ UNCHANGED from_api

\* the API server answers the oldest request it has received
ApiAnswer ==
    /\ api.tx
    /\ api.pending # <<>>
    /\ \E payload \in {"Ok", "Err"} :
          /\ from_api' = Append(from_api, ApiResponse(Head(api.pending), payload))
          /\ HttpStep(ht, to_api, [api EXCEPT !.pending = Tail(@)])

\* the API server drops its receiver of to_api, or its sender of from_api
ApiDropRx ==
    /\ api.rx
    /\ HttpStep(ht, to_api, [api EXCEPT !.rx = FALSE])
    /\ UNCHANGED from_api

ApiDropTx ==
    /\ api.tx
    /\ HttpStep(ht, to_api, [api EXCEPT !.tx = FALSE])
    /\ UNCHANGED from_api

NextHttp ==
    \/ WakeHttp
    \/ PollOk
    \/ PollErr
    \/ NextEvent
    \/ NextRequest
    \/ KickSend
    \/ KickWake
    \/ KickRecv
    \/ Respond
    \/ ExitSend
    \/ ExitWake
    \/ ThreadReturn
    \/ ApiRecv
    \/ ApiAnswer
    \/ ApiDropRx
    \/ ApiDropTx

SpecHttp == InitHttp /\ [][NextHttp]_vars

\* the steps of the HTTP thread
HttpThread ==
    \/ PollOk
    \/ PollErr
    \/ NextEvent
    \/ NextRequest
    \/ KickSend
    \/ KickWake
    \/ KickRecv
    \/ Respond
    \/ ExitSend
    \/ ExitWake
    \/ ThreadReturn

\* the thread runs when it can, and the API server receives and answers
\* while it can
SpecHttpFair ==
    /\ SpecHttp
    /\ WF_vars(HttpThread)
    /\ WF_vars(ApiRecv)
    /\ WF_vars(ApiAnswer)

(***************************************************************************)
(* Properties of kick_api_server and of the HTTP thread                    *)
(***************************************************************************)
\* the kick_api_server call that has just returned
Returned == ht.pc = "respond" /\ ht.call.id # 0

\* C21 as stated: kick_api_server sends exactly one Some(request), wakes the
\* notifier if one is given, waits for one response on from_api and returns
\* it unchanged; it returns RequestSend without sending, waking or waiting
\* when the receiver of to_api is gone, and ResponseRecv when the sender of
\* from_api is gone
C21_KickApiServer ==
    Returned =>
        LET c == ht.call
        IN  IF ~c.rx
            THEN c.res = "RequestSend" /\ c.sent = 0 /\ ~c.woke /\ c.got = NoMsg
            ELSE /\ c.sent = 1
                 /\ ht.sent[Len(ht.sent)] = Some(c.id)
                 /\ c.woke = ht.notifier
                 /\ c.res \in {"reply", "ResponseRecv"}
                 /\ c.res = "reply" => c.got # NoMsg /\ c.reply = c.got
                 /\ c.res = "ResponseRecv" => ~c.tx /\ c.got = NoMsg

\* C21 amended: the same, except that the call returns a Wakeup error without
\* waiting for a response when the wake of the notifier fails
C21_KickUnlessWakeFails ==
    Returned =>
        LET c == ht.call
        IN  IF ~c.rx
            THEN c.res = "RequestSend" /\ c.sent = 0 /\ ~c.woke /\ c.got = NoMsg
            ELSE /\ c.sent = 1
                 /\ ht.sent[Len(ht.sent)] = Some(c.id)
                 /\ c.res \in {"reply", "ResponseRecv", "Wakeup"}
                 /\ c.res = "Wakeup" => ht.notifier /\ ~c.woke /\ c.got = NoMsg
                 /\ c.res # "Wakeup" => c.woke = ht.notifier
                 /\ c.res = "reply" => c.got # NoMsg /\ c.reply = c.got
                 /\ c.res = "ResponseRecv" => ~c.tx /\ c.got = NoMsg

\* a call with a notifier has returned the Err response of the API server
C21_Witness ==
    /\ Returned
    /\ ht.notifier /\ ht.call.woke
    /\ ht.call.res = "reply" /\ ht.call.reply.payload = "Err"


\* the messages the thread has put on to_api that are None
Nones == {i \in 1..Len(ht.sent) : ht.sent[i] = NoneMsg}

C22_NoneLast ==
    /\ Cardinality(Nones) <= 1
    /\ Nones # {} =>
           /\ ht.sent[Len(ht.sent)] = NoneMsg
           /\ ht.batch = <<>> /\ ht.reqs = 0
           /\ ht.pc \in {"exit_wake", "return", "done"}
    /\ ht.pc = "done" =>
           /\ Nones = {} => ~api.rx
           /\ ht.result = (IF ht.poll_err THEN "Err" ELSE "Ok")
           /\ ~ht.poll_err => ht.do_exit

\* the thread waits in kick_api_server for a response that cannot come: the
\* API server dropped its receiver before taking the request, and keeps its
\* sender
Starved ==
    /\ ht.pc = "k_recv"
    /\ from_api = <<>> /\ api.pending = <<>>
    /\ api.tx /\ ~api.rx

Outstanding ==
    (IF api.tx
     THEN (IF api.rx
           THEN Cardinality({i \in 1..Len(to_api) : to_api[i].kind = "Some"})
           ELSE 0) + Len(api.pending)
     ELSE 0) + Len(from_api)

\* C27: the response a kick_api_server call returns is the one the API server
\* produced for the request of that call, also after calls that failed once
\* their request was sent, and at most one request awaits its response at
\* any time
C27_OwnResponse ==
    /\ ht.pc = "respond" /\ ht.call.res = "reply" => ht.call.reply.from = ht.call.id
    /\ Outstanding <= 1


(***************************************************************************)
(* SpecNew: BlobIoDesc::new on bounded arguments, and the descriptor       *)
(* pushed on an empty BlobIoVec to be passed to the device.  The           *)
(* descriptor keeps the offset and size of the IO within the chunk and the *)
(* chunk's uncompress_size().                                              *)
(***************************************************************************)
BlobIoChunk(uncompress_size) == [uncompress_size |-> uncompress_size]

BlobIoDesc_new(blob, chunkinfo, offset, size, user_io) ==
    [blob |-> blob, chunkinfo |-> chunkinfo, offset |-> offset, size |-> size,
     user_io |-> user_io]

InitNew ==
    /\ DescIdle /\ IoVecIdle /\ RangeIdle /\ InfoIdle /\ CacheIdle /\ HttpIdle /\ HoleIdle
    /\ DevIdle /\ debug_build = FALSE

DescNew ==
    /\ \E blob \in BlobIndexes, us \in U32, offset \in U32, size \in U64,
          user_io \in BOOLEAN :
          d_self' = BlobIoDesc_new(blob, BlobIoChunk(us), offset, size, user_io)
    /\ d_res' = "new"
    /\ iovec' = BlobIoVec_new
    /\ UNCHANGED <<d_prev, iv_res, range_vars, debug_build,
                   info_vars, cache_vars, http_vars, hole_vars, dev_vars>>

\* bi_vec.push(desc); bi_size += desc.size
DescPush ==
    /\ d_res = "new"
    /\ iovec' = BlobIoVec(iovec.bi_size + d_self.size, Append(iovec.bi_vec, d_self))
    /\ d_res' = "pushed"
    /\ UNCHANGED <<d_self, d_prev, iv_res, range_vars, debug_build,
                   info_vars, cache_vars, http_vars, hole_vars, dev_vars>>

NextNew == DescNew \/ DescPush

SpecNew == InitNew /\ [][NextNew]_vars

\* C23: every descriptor built by BlobIoDesc::new, and every descriptor of a
\* vector that is passed to the device, lies within its chunk: offset + size
\* is at most the uncompress_size() of the chunk
C23_DescWithinChunk ==
    /\ d_res \in {"new", "pushed"} =>
           d_self.offset + d_self.size <= d_self.chunkinfo.uncompress_size
    /\ d_res = "pushed" =>
           \A i \in 1..Len(iovec.bi_vec) :
               iovec.bi_vec[i].offset + iovec.bi_vec[i].size
                   <= iovec.bi_vec[i].chunkinfo.uncompress_size


NextLookup(t) ==
    /\ op[t].name \in {"all_chunks_ready", "prefetch", "fetch_range_synchronous"}
    /\ op'[t].name = op[t].name
    /\ op[t].i >= 1 /\ op'[t].i = op[t].i + 1
    /\ op[t].call # NoCall /\ op'[t].call # NoCall

\* C24: every cache lookup that one call of all_chunks_ready, prefetch or
\* fetch_range_synchronous makes resolves against the vector that the
\* lookup before it of the same call resolved against, whatever update does
\* meanwhile
C24_SingleSnapshot ==
    [][\A t \in Readers : NextLookup(t) => op'[t].snap = op[t].snap]_vars


\* the update call of u1 without prefetch
PlainUpdate(o) == o.name = "update" /\ ~o.fs_prefetch

\* C26: a successful update(.., fs_prefetch = false) has put its new vector
\* in service and has issued no stop_prefetch and no start_prefetch, and no
\* step of the call changes which caches have their prefetch running
C26_UpdateNoPrefetch ==
    /\ [](LET o == op["u1"]
          IN  /\ PlainUpdate(o) =>
                     Positions(o, "stop_prefetch") \cup Positions(o, "start_prefetch") = {}
              /\ PlainUpdate(o) /\ pc["u1"] = "done" /\ ret["u1"].kind = "Ok" =>
                     /\ blobs = o.new
                     /\ Len(o.new) = o.n
                     /\ \A i \in 1..o.n : o.new[i] \notin Range(o.old))
    /\ [][PlainUpdate(op'["u1"]) /\ <<pc["u1"], op["u1"]>> # <<pc'["u1"], op'["u1"]>>
              => running' = running]_vars

\* update without prefetch has replaced a vector whose first cache has its
\* prefetch still running
C26_Witness ==
    /\ PlainUpdate(op["u1"])
    /\ pc["u1"] = "done" /\ ret["u1"].kind = "Ok"
    /\ op["u1"].n >= 1
    /\ op["u1"].old # <<>>
    /\ op["u1"].old[1] \in running
    /\ blobs = op["u1"].new


(***************************************************************************)
(* Properties of BlobInfo's readahead range                                *)
(***************************************************************************)
\* v is the u64 value a reduced to 32 bits
Low32(a, v) == v \in U32 /\ \E k \in 0..U64Max : a = v + k * (U32Max + 1)

\* C28: after set_readahead(offset, size), readahead_offset() and
\* readahead_size() are the arguments reduced modulo 2^32: they are the
\* arguments themselves exactly when both fit 32 bits, and a nonzero size
\* that is a multiple of 2^32 reads back as 0
C28_ReadaheadTruncated ==
    "set_readahead" \in info_calls.called =>
        LET offset == info_calls.readahead[1]
            size == info_calls.readahead[2]
        IN  /\ Low32(offset, readahead_offset(info))
            /\ Low32(size, readahead_size(info))
            /\ (readahead_offset(info) = offset /\ readahead_size(info) = size)
                   <=> (offset <= U32Max /\ size <= U32Max)
            /\ size = U32Max + 1 => readahead_size(info) = 0

\* set_readahead was given 2^32 as size, which reads back as 0
C28_Witness ==
    /\ "set_readahead" \in info_calls.called
    /\ info_calls.readahead[2] = U32Max + 1
    /\ readahead_size(info) = 0


(***************************************************************************)
(* Properties of the order of fetch_range_synchronous                      *)
(***************************************************************************)
\* the request that operation o is at is skipped: it has no length, or no
\* cache of the vector has its blob_id
Skipped(o) == o.req.len = 0 \/ Matching(o.snap, o.req.blob_id) = {}

\* C29: fetch_range_synchronous takes its requests one by one in input
\* order; a request is taken only if no request before it failed, and is then
\* fetched unless it is skipped; the call ends with the error of the first
\* request that fails, at that request; a request whose blob_id matches no
\* cache leaves no fetch and does not end the call with an error
C29_StopAtFirstFailure ==
    /\ [](\A t \in Readers :
            LET o == op[t]
                n == Len(o.log)
            IN  o.name = "fetch_range_synchronous" =>
                    /\ \A p \in 1..n : o.log[p].res # "Ok" =>
                           /\ p = n /\ o.log[p].idx = o.i
                           /\ pc[t] = "done" /\ ret[t] = Err(o.log[p].res)
                    /\ pc[t] = "done" /\ ret[t].kind # "Ok" =>
                           n >= 1 /\ o.log[n].res = ret[t].kind
                    /\ o.i > 0 /\ Matching(o.snap, o.req.blob_id) = {} =>
                           /\ \A p \in 1..n : o.log[p].idx # o.i
                           /\ ret[t].kind \in {"none", "Ok"})
    /\ [][\A t \in Readers :
            (pc[t] = "fetch_loop" /\ op'[t] # op[t]) =>
                LET o == op[t]
                    o2 == op'[t]
                IN  /\ o2.i = o.i + 1
                    /\ \A p \in 1..Len(o.log) : o.log[p].res = "Ok"
                    /\ IF Skipped(o2)
                       THEN o2.log = o.log
                       ELSE /\ Len(o2.log) = Len(o.log) + 1
                            /\ SubSeq(o2.log, 1, Len(o.log)) = o.log
                            /\ o2.log[Len(o2.log)].idx = o2.i]_vars

\* the fetch of the first of two requests failed and the call ended there
\* with that error, the second request not taken
C29_Witness ==
    \E t \in Readers :
        /\ pc[t] = "done"
        /\ op[t].name = "fetch_range_synchronous"
        /\ ret[t] = Err("Io")
        /\ op[t].n_reqs = 2
        /\ op[t].i = 1
        /\ Len(op[t].log) = 1
        /\ op[t].log[1].res = "Io"


(***************************************************************************)
(* SpecHole: fill_hole(bufs, size).  A buffer is the sequence of its       *)
(* bytes, "x" where nothing was written and "0" for a zero; ZEROS has      *)
(* ZerosLen bytes (4096 scaled down).  hole.writes is the list of the      *)
(* write_slice calls made.                                                 *)
(***************************************************************************)
ZerosLen == 2

Min(a, b) == IF a < b THEN a ELSE b

Buffer(len) == [i \in 1..len |-> "x"]

InitHole ==
    /\ \E n \in 0..MaxBufs :
       \E lens \in [1..n -> 0..MaxBufLen], size \in 0..MaxHoleSize :
          hole = HoleCall([i \in 1..n |-> Buffer(lens[i])], size)
    /\ DescIdle /\ IoVecIdle /\ RangeIdle /\ InfoIdle /\ CacheIdle /\ HttpIdle
    /\ DevIdle /\ debug_build = FALSE

HoleStep(h) ==
    /\ hole' = h
    /\ UNCHANGED <<desc_vars, iovec_vars, range_vars, info_vars, debug_build,
                   cache_vars, http_vars, dev_vars>>

\* for &buf in bufs.iter(): the next buffer, or Ok(count) after the last
HoleNextBuf ==
    /\ hole.pc = "for"
    /\ IF hole.b = Len(hole.bufs)
       THEN HoleStep([hole EXCEPT !.pc = "done", !.res = Ok(hole.count)])
       ELSE LET b == hole.b + 1
                total == Min(hole.remain, Len(hole.bufs[b]))
            IN  HoleStep([hole EXCEPT !.b = b, !.total = total, !.offset = 0,
                                      !.pc = IF total > 0 THEN "while" ELSE "for"])

\* one write of all that is left for the buffer
burst_all(total) == total

\* cmp::min(total, ZEROS.len())
burst(total) == Min(total, ZerosLen)

\* buf.write_slice(&ZEROS[0..cnt], offset): fails when the slice does not
\* fit the buffer
write_slice(buf, cnt, offset) ==
    IF offset + cnt > Len(buf) THEN [ok |-> FALSE, buf |-> buf]
    ELSE [ok |-> TRUE,
          buf |-> [i \in 1..Len(buf) |->
                      IF i > offset /\ i <= offset + cnt THEN "0" ELSE buf[i]]]

\* one turn of the while loop of lines 1041-1049
HoleWrite ==
    /\ hole.pc = "while"
    /\ LET cnt == burst(hole.total)
           w == write_slice(hole.bufs[hole.b], cnt, hole.offset)
       IN  IF ~w.ok
           THEN HoleStep([hole EXCEPT !.pc = "done", !.res = Err("Io")])
           ELSE HoleStep([hole EXCEPT
                    !.bufs[hole.b] = w.buf,
                    !.writes = Append(@, [buf |-> hole.b, offset |-> hole.offset,
                                          cnt |-> cnt]),
                    !.count = @ + cnt,
                    !.remain = @ - cnt,
                    !.total = @ - cnt,
                    !.offset = @ + cnt,
                    !.pc = IF hole.total - cnt > 0 THEN "while" ELSE "for"])

NextHole == HoleNextBuf \/ HoleWrite

\* the call runs until it returns
SpecHole == InitHole /\ [][NextHole]_vars /\ WF_vars(NextHole)

(***************************************************************************)
(* Properties of fill_hole                                                 *)
(***************************************************************************)
RECURSIVE Capacity(_)
Capacity(bufs) == IF bufs = <<>> THEN 0 ELSE Len(Head(bufs)) + Capacity(Tail(bufs))

\* the bytes of all the buffers, in the order of the buffers
RECURSIVE Flat(_)
Flat(bufs) == IF bufs = <<>> THEN <<>> ELSE Head(bufs) \o Flat(Tail(bufs))

\* C30: fill_hole returns; every write has at most ZEROS.len() bytes and the
\* writes go through the buffers in order, each starting where the one before
\* ended; the call returns Ok(count) where count is the number of bytes
\* written, the smaller of size and the capacity of the buffers (so size when
\* the capacity is at least size); the first count bytes of the buffers are
\* zero and no other byte is touched
C30_FillHole ==
    /\ <>(hole.pc = "done")
    /\ [](LET w == hole.writes
              out == Flat(hole.bufs)
          IN  /\ \A i \in 1..Len(w) : w[i].cnt >= 1 /\ w[i].cnt <= ZerosLen
              /\ \A i \in 1..(Len(w) - 1) :
                     \/ w[i + 1].buf = w[i].buf /\ w[i + 1].offset = w[i].offset + w[i].cnt
                     \/ w[i + 1].buf > w[i].buf /\ w[i + 1].offset = 0
                            /\ w[i].offset + w[i].cnt = Len(hole.bufs[w[i].buf])
              /\ hole.count <= hole.size /\ hole.count <= Capacity(hole.bufs)
              /\ \A i \in 1..Len(out) : out[i] = "0" <=> i <= hole.count
              /\ hole.pc = "done" =>
                     /\ hole.res = Ok(hole.count)
                     /\ hole.count = Min(hole.size, Capacity(hole.bufs))
                     /\ Capacity(hole.bufs) >= hole.size => hole.count = hole.size)

\* a hole larger than two full writes was filled over two buffers, ending
\* with a shorter write
C30_Witness ==
    /\ hole.pc = "done"
    /\ Len(hole.bufs) = 2
    /\ hole.size > 2 * ZerosLen
    /\ hole.res = Ok(hole.size)
    /\ hole.writes[Len(hole.writes)].buf = 2
    /\ hole.writes[Len(hole.writes)].cnt < ZerosLen

====
